---------------------------- MODULE Spec2Model ----------------------------
(***************************************************************************)
(* A model of the cjson codec: the lexer and recursive descent parser      *)
(* (json_parser.c), the stringifier (json_stringify.c), structural         *)
(* equality (json_utils.c) and the incremental stream driver               *)
(* (json_streaming.c).                                                     *)
(*                                                                         *)
(* Bytes are their unsigned codes 1..255; a C string is the sequence of   *)
(* its bytes before the terminating NUL, and reading the terminator gives  *)
(* 0.  A JsonValue* that is NULL is the record NULL.  Allocation failure   *)
(* (malloc/realloc returning NULL) and the line/column of diagnostics are  *)
(* not modelled.                                                           *)
(***************************************************************************)
EXTENDS Integers, Sequences, FiniteSets, TLC

VARIABLES
    doc,                \* the bytes handed to the codec or to the stream
    pc,                 \* position of the caller
    result,             \* outcome of json_parse_with_error(doc)
    text,               \* outcome of json_stringify(result.value, pretty)
    result2,            \* outcome of json_parse_with_error(text)
    pretty,             \* the pretty argument of json_stringify
    base,               \* address of the input string modulo 16
    parser,             \* the JsonStreamParser
    consumed,           \* how many bytes of doc the stream calls were given
    events,             \* the events delivered to the callback, in order
    before,             \* how many events had been delivered before the last call
    returned,           \* what the last stream call returned
    refused,            \* the deliveries the callback has answered with false
    failures,           \* how many stream calls have returned false
    g_json_last_error,  \* code of the process-wide last-error record
    mem,                \* the allocated blocks, by address
    held                \* the pointers and results the calling program holds

vars == <<doc, pc, result, text, result2, pretty, base, parser, consumed,
          events, before, returned, refused, failures,
          g_json_last_error, mem, held>>

----------------------------------------------------------------------------
(* Bytes *)

\* the character constants of the sources, by their ASCII codes
CH_tab == 9
CH_lf == 10
CH_cr == 13
CH_bs == 8
CH_ff == 12
CH_space == 32
CH_quote == 34
CH_plus == 43
CH_comma == 44
CH_minus == 45
CH_dot == 46
CH_slash == 47
CH_zero == 48
CH_one == 49
CH_nine == 57
CH_colon == 58
CH_upA == 65
CH_upE == 69
CH_upF == 70
CH_lbracket == 91
CH_backslash == 92
CH_rbracket == 93
CH_a == 97
CH_b == 98
CH_e == 101
CH_f == 102
CH_l == 108
CH_n == 110
CH_r == 114
CH_s == 115
CH_t == 116
CH_u == 117
CH_lbrace == 123
CH_rbrace == 125

\* *p for a C string s and the 1-based position i of p; the terminator reads 0
At(s, i) == IF i >= 1 /\ i <= Len(s) THEN s[i] ELSE 0

\* the C string held in a buffer: its bytes up to the first NUL
RECURSIVE CStrFrom(_, _)
CStrFrom(s, i) ==
    IF i > Len(s) \/ s[i] = 0 THEN <<>> ELSE <<s[i]>> \o CStrFrom(s, i + 1)

CStr(s) == CStrFrom(s, 1)

isdigit(c) == c >= CH_zero /\ c <= CH_nine

isxdigit(c) ==
    \/ isdigit(c)
    \/ (c >= CH_a /\ c <= CH_f)
    \/ (c >= CH_upA /\ c <= CH_upF)

\* isspace() of the C locale: space, \t, \n, \v, \f, \r
isspace(c) == c = CH_space \/ (c >= CH_tab /\ c <= CH_cr)

is_json_whitespace(c) ==
    c = CH_space \/ c = CH_tab \/ c = CH_lf \/ c = CH_cr

NULL == [type |-> "NULL"]


----------------------------------------------------------------------------
(* Lexer: json_parser.c *)

\* The tokenizer record also keeps the books of the heap for its parse:
\* heap is the number of blocks the parse has allocated and not freed.  A
\* token's string, an object key and a value node count as one block each.
Alloc(t) == [t EXCEPT !.heap = @ + 1]

\* free() of one block
Free(t) == [t EXCEPT !.heap = @ - 1]

\* json_set_error on the tokenizer's view of g_json_last_error
json_set_error(t, code) == [t EXCEPT !.err = code]

\* t->current = s + j - 1
SetCurrent(t, j) == [t EXCEPT !.cur = j]

\* first position at or after i whose byte is not JSON whitespace
RECURSIVE SkipWsPos(_, _)
SkipWsPos(s, i) ==
    IF is_json_whitespace(At(s, i)) THEN SkipWsPos(s, i + 1) ELSE i

\* (size_t)t->current % 16 == 0
Aligned16(t) == (t.base + t.cur - 1) % 16 = 0

\* the vector path stops at the first byte that is not whitespace and
\* records nothing
skip_whitespace_simd(t) == SetCurrent(t, SkipWsPos(t.src, t.cur))

\* a scalar loop that records INVALID_WHITESPACE and goes on past the
\* control byte
ScalarSkipPast(t, j) ==
    IF At(t.src, j) > 32 \/ At(t.src, j) = 0 THEN SetCurrent(t, j)
    ELSE json_set_error(SetCurrent(t, j + 1), "INVALID_WHITESPACE")

\* the scalar loop stops at the same byte, position j, and records
\* INVALID_WHITESPACE when that byte is a control byte
ScalarSkip(t, j) ==
    IF At(t.src, j) > 32 \/ At(t.src, j) = 0 THEN SetCurrent(t, j)
    ELSE json_set_error(SetCurrent(t, j), "INVALID_WHITESPACE")

skip_whitespace(t) ==
    IF Aligned16(t) THEN skip_whitespace_simd(t)
    ELSE ScalarSkip(t, SkipWsPos(t.src, t.cur))

parse_hex_digit(c) ==
    IF c >= CH_zero /\ c <= CH_nine THEN c - CH_zero
    ELSE IF c >= CH_a /\ c <= CH_f THEN c - CH_a + 10
    ELSE IF c >= CH_upA /\ c <= CH_upF THEN c - CH_upA + 10
    ELSE 0

encode_utf8(codepoint) ==
    IF codepoint <= 127 THEN <<codepoint>>
    ELSE IF codepoint <= 2047
    THEN <<192 + (codepoint \div 64), 128 + (codepoint % 64)>>
    ELSE IF codepoint <= 65535
    THEN IF codepoint >= 55296 /\ codepoint <= 57343 THEN <<>>
         ELSE <<224 + (codepoint \div 4096),
                128 + ((codepoint \div 64) % 64),
                128 + (codepoint % 64)>>
    ELSE IF codepoint <= 1114111
    THEN <<240 + (codepoint \div 262144),
           128 + ((codepoint \div 4096) % 64),
           128 + ((codepoint \div 64) % 64),
           128 + (codepoint % 64)>>
    ELSE <<>>

\* the four-digit loops of tokenize_string, lines 275-286 and 293-304
Hex4Ok(s, i) == \A k \in 0..3 : isxdigit(At(s, i + k))

RECURSIVE HexVal(_, _, _, _)
HexVal(s, i, n, acc) ==
    IF n = 0 THEN acc
    ELSE HexVal(s, i + 1, n - 1, acc * 16 + parse_hex_digit(At(s, i)))

Hex4Val(s, i) == HexVal(s, i, 4, 0)

\* the byte a one-letter escape stands for, 0 if the letter is no escape
SimpleEscape(c) ==
    IF c = CH_n THEN CH_lf
    ELSE IF c = CH_t THEN CH_tab
    ELSE IF c = CH_r THEN CH_cr
    ELSE IF c = CH_b THEN CH_bs
    ELSE IF c = CH_f THEN CH_ff
    ELSE IF c = CH_quote THEN CH_quote
    ELSE IF c = CH_backslash THEN CH_backslash
    ELSE IF c = CH_slash THEN CH_slash
    ELSE 0

\* a decoded escape: its bytes and the position of its last byte
Decoded(bytes, last) ==
    IF bytes = <<>> THEN [err |-> "INVALID_UTF8"]
    ELSE [err |-> "NONE", bytes |-> bytes, last |-> last]

\* lines 305-316: a high surrogate cp and the unit low that follows it,
\* whose last digit is at position last
SurrogatePair(cp, low, last) ==
    IF low < 56320 \/ low > 57343 THEN [err |-> "INVALID_SURROGATE"]
    ELSE Decoded(encode_utf8(65536 + (cp - 55296) * 1024 + (low - 56320)),
                 last)

\* lines 288-330: the unit cp has been read, its last digit is at position
\* last
UnicodeUnit(s, cp, last) ==
    IF cp >= 55296 /\ cp <= 56319
    THEN IF At(s, last + 1) = CH_backslash /\ At(s, last + 2) = CH_u
         THEN IF ~Hex4Ok(s, last + 3) THEN [err |-> "INVALID_SURROGATE"]
              ELSE SurrogatePair(cp, Hex4Val(s, last + 3), last + 6)
         ELSE [err |-> "INVALID_SURROGATE"]
    ELSE IF cp >= 56320 /\ cp <= 57343 THEN [err |-> "INVALID_SURROGATE"]
    ELSE Decoded(encode_utf8(cp), last)

\* case 'u' of tokenize_string with i at the first hex digit: the decoded
\* bytes and the position of the last byte of the escape, or the error
UnicodeEscape(s, i) ==
    IF ~Hex4Ok(s, i) THEN [err |-> "INVALID_ESCAPE"]
    ELSE UnicodeUnit(s, Hex4Val(s, i), i + 3)

RECURSIVE StringLoop(_, _, _)

\* the loop goes on after a \u escape
AfterUnicode(s, acc, esc) ==
    IF esc.err # "NONE" THEN [err |-> esc.err]
    ELSE StringLoop(s, esc.last + 1, acc \o esc.bytes)

\* the loop at a backslash that is followed by the byte x
Escape(s, i, acc, x) ==
    IF x = 0 THEN [err |-> "UNTERMINATED_STRING"]
    ELSE IF x = CH_u THEN AfterUnicode(s, acc, UnicodeEscape(s, i + 2))
    ELSE IF SimpleEscape(x) # 0
    THEN StringLoop(s, i + 2, Append(acc, SimpleEscape(x)))
    ELSE [err |-> "INVALID_ESCAPE"]

\* the loop at the byte c
StringByte(s, i, acc, c) ==
    IF c = 0 \/ c = CH_quote THEN [err |-> "NONE", cur |-> i, str |-> acc]
    ELSE IF c = CH_backslash THEN Escape(s, i, acc, At(s, i + 1))
    ELSE IF c < 32 THEN [err |-> "INVALID_SYNTAX"]
    ELSE StringLoop(s, i + 1, Append(acc, c))

\* the while loop of tokenize_string with i at t->current and acc the bytes
\* decoded so far: where the loop stops, or the error that ends it
StringLoop(s, i, acc) == StringByte(s, i, acc, At(s, i))

\* lines 353-362: the loop has ended as r says; the buffer malloc'ed at
\* line 232 is freed on every error and handed to the caller otherwise
StringEnd(t, r) ==
    IF r.err # "NONE" THEN [ok |-> FALSE, t |-> json_set_error(t, r.err)]
    ELSE IF At(t.src, r.cur) # CH_quote
    THEN [ok |-> FALSE, t |-> json_set_error(t, "UNTERMINATED_STRING")]
    ELSE [ok |-> TRUE, t |-> Alloc(SetCurrent(t, r.cur + 1)), str |-> r.str]

\* tokenize_string with t->current at the opening quote: the decoded bytes
\* (a char*, so readers stop at a decoded NUL) or NULL with the error set
tokenize_string(t) == StringEnd(t, StringLoop(t.src, t.cur + 1, <<>>))

\* while (p < end && isdigit(*p)) p++
RECURSIVE SkipDigits(_, _, _)
SkipDigits(s, p, end) ==
    IF p < end /\ isdigit(At(s, p)) THEN SkipDigits(s, p + 1, end) ELSE p

\* The parts of a number are scanned alike by next_token and by
\* validate_number_format_strict; a scan gives the position reached and the
\* code next_token sets when it gives up.
Scanned(p) == [err |-> "NONE", p |-> p]

if_minus(s, p) == IF At(s, p) = CH_minus THEN p + 1 ELSE p

\* the integer part at p
IntegerPart(s, p, end) ==
    IF At(s, p) = CH_zero
    THEN IF p + 1 < end /\ isdigit(At(s, p + 1))
         THEN [err |-> "LEADING_ZERO", p |-> p + 1]
         ELSE Scanned(p + 1)
    ELSE IF At(s, p) >= CH_one /\ At(s, p) <= CH_nine
    THEN Scanned(SkipDigits(s, p + 1, end))
    ELSE [err |-> "INVALID_NUMBER", p |-> p]

\* the optional fraction after the scan r
FractionPart(s, r, end) ==
    IF r.err # "NONE" THEN r
    ELSE IF r.p < end /\ At(s, r.p) = CH_dot
    THEN IF r.p + 1 >= end \/ ~isdigit(At(s, r.p + 1))
         THEN [err |-> "INVALID_NUMBER", p |-> r.p + 1]
         ELSE Scanned(SkipDigits(s, r.p + 1, end))
    ELSE r

\* the digits of an exponent, which start at q
ExponentDigits(s, q, end) ==
    IF q >= end \/ ~isdigit(At(s, q))
    THEN [err |-> "INVALID_NUMBER", p |-> q]
    ELSE Scanned(SkipDigits(s, q, end))

\* the optional exponent after the scan r
ExponentPart(s, r, end) ==
    IF r.err # "NONE" THEN r
    ELSE IF r.p < end /\ (At(s, r.p) = CH_e \/ At(s, r.p) = CH_upE)
    THEN ExponentDigits(
             s,
             IF r.p + 1 < end /\ (At(s, r.p + 1) = CH_plus
                                  \/ At(s, r.p + 1) = CH_minus)
             THEN r.p + 2 ELSE r.p + 1,
             end)
    ELSE r

\* integer part, fraction and exponent from p on
ScanNumber(s, p, end) ==
    ExponentPart(s, FractionPart(s, IntegerPart(s, p, end), end), end)

\* the scan of s[start..end-1] is good and stops at end
ValidScan(r, end) == r.err = "NONE" /\ r.p = end

validate_number_format_strict(s, start, end) ==
    /\ start < end
    /\ if_minus(s, start) < end
    /\ ValidScan(ScanNumber(s, if_minus(s, start), end), end)

\* the decimal digits (as numbers) of s[from..to-1]
RECURSIVE DigitsOf(_, _, _)
DigitsOf(s, from, to) ==
    IF from >= to THEN <<>>
    ELSE <<At(s, from) - CH_zero>> \o DigitsOf(s, from + 1, to)

RECURSIVE DigitsToNat(_, _)
DigitsToNat(ds, acc) ==
    IF ds = <<>> THEN acc ELSE DigitsToNat(Tail(ds), acc * 10 + Head(ds))

RECURSIVE StripLeadingZeros(_)
StripLeadingZeros(ds) ==
    IF ds # <<>> /\ Head(ds) = 0 THEN StripLeadingZeros(Tail(ds)) ELSE ds

RECURSIVE TrailingZeros(_)
TrailingZeros(ds) ==
    IF ds # <<>> /\ ds[Len(ds)] = 0
    THEN 1 + TrailingZeros(SubSeq(ds, 1, Len(ds) - 1)) ELSE 0

DBL_MAX_10_EXP == 308
DBL_MIN_10_EXP == -307

\* digits lead, which start with a digit that is not 0, without their tz
\* trailing zeros
Significant(neg, lead, tz, exp10) ==
    [neg |-> neg, digits |-> SubSeq(lead, 1, Len(lead) - tz),
     exp |-> exp10 + tz]

Nonzero(neg, lead, exp10) ==
    IF lead = <<>> THEN [neg |-> neg, digits |-> <<>>, exp |-> 0]
    ELSE Significant(neg, lead, TrailingZeros(lead), exp10)

\* A double is held as the decimal it was read from: sign, significant
\* digits without leading or trailing zeros (none for zero) and the power
\* of ten of the last digit.  Two literals of at most 15 significant
\* digits denote the same double exactly when these agree.
Double(neg, ds, exp10) == Nonzero(neg, StripLeadingZeros(ds), exp10)

\* decimal exponent of the leading digit
Adjusted(num) == Len(num.digits) + num.exp - 1

\* the double, and whether errno is ERANGE (overflow past DBL_MAX, or a
\* result below the normal range; the decade of DBL_MAX and DBL_MIN
\* themselves is taken as in range)
Ranged(num) ==
    [value  |-> num,
     erange |-> num.digits # <<>>
                /\ (Adjusted(num) > DBL_MAX_10_EXP
                    \/ Adjusted(num) < DBL_MIN_10_EXP - 1)]

\* the value of the exponent written in s[p3..p-1], 0 if there is none
ExponentOf(s, p3, p) ==
    IF p3 >= p THEN 0
    ELSE IF At(s, p3 + 1) = CH_minus
    THEN 0 - DigitsToNat(DigitsOf(s, p3 + 2, p), 0)
    ELSE IF At(s, p3 + 1) = CH_plus
    THEN DigitsToNat(DigitsOf(s, p3 + 2, p), 0)
    ELSE DigitsToNat(DigitsOf(s, p3 + 1, p), 0)

\* the literal s[p1..p-1] without its sign: integer digits up to p2,
\* fraction up to p3, then the exponent
Literal(s, neg, p1, p2, p3, p) ==
    Ranged(Double(neg,
                  DigitsOf(s, p1, p2) \o DigitsOf(s, p2 + 1, p3),
                  ExponentOf(s, p3, p) - (IF p3 > p2 THEN p3 - p2 - 1 ELSE 0)))

\* where the fraction that may start at p2 ends
FractionEnd(s, p2, p) ==
    IF At(s, p2) = CH_dot THEN SkipDigits(s, p2 + 1, p) ELSE p2

Unsigned(s, neg, p1, p2, p) ==
    Literal(s, neg, p1, p2, FractionEnd(s, p2, p), p)

\* strtod on the literal s[start..p-1], which next_token has validated
strtod(s, start, p) ==
    Unsigned(s, At(s, start) = CH_minus, if_minus(s, start),
             SkipDigits(s, if_minus(s, start), p), p)

Token(type) == [type |-> type]

\* next_token returning TOKEN_ERROR; lexer_code keeps the code the lexer
\* had set when it first gave up (a history field, not in the program)
TokenError(t) ==
    [t |-> [t EXCEPT !.lexer_code = IF @ = "NONE" THEN t.err ELSE @],
     token |-> Token("TOKEN_ERROR")]

Punct(t, type) == [t |-> SetCurrent(t, t.cur + 1), token |-> Token(type)]

\* strncmp(t->current, word, n) == 0 with t->current + n <= t->end
Keyword(t, word) ==
    \A k \in 1..Len(word) : At(t.src, t.cur + k - 1) = word[k]

\* lines 510-532: the literal ends before position p and strtod gave d
NumberValue(t, p, d) ==
    IF d.erange THEN TokenError(json_set_error(t, "NUMBER_OUT_OF_RANGE"))
    ELSE [t |-> SetCurrent(t, p),
          token |-> [type |-> "TOKEN_NUMBER", number |-> d.value]]

\* lines 473-508: the parts of the number have been scanned as r says
NumberScanned(t, r) ==
    IF r.err # "NONE" THEN TokenError(json_set_error(t, r.err))
    ELSE IF ~validate_number_format_strict(t.src, t.cur, r.p)
    THEN TokenError(json_set_error(t, "INVALID_NUMBER"))
    ELSE NumberValue(t, r.p, strtod(t.src, t.cur, r.p))

\* case '-', '0'..'9' of next_token; t->end is at position Len(t.src) + 1
NumberToken(t) ==
    IF t.cur >= Len(t.src) + 1
    THEN TokenError(json_set_error(t, "UNEXPECTED_EOF"))
    ELSE IF if_minus(t.src, t.cur) >= Len(t.src) + 1
    THEN TokenError(json_set_error(t, "INVALID_NUMBER"))
    ELSE NumberScanned(t, ScanNumber(t.src, if_minus(t.src, t.cur),
                                     Len(t.src) + 1))

\* case '"' of next_token
StringToken(r) ==
    IF r.ok THEN [t |-> r.t,
                  token |-> [type |-> "TOKEN_STRING", string |-> r.str]]
    ELSE TokenError(r.t)

\* the switch of next_token on the byte c at t->current
TokenAt(t, c) ==
    IF c = 0 THEN [t |-> t, token |-> Token("TOKEN_EOF")]
    ELSE IF c = CH_lbrace THEN Punct(t, "TOKEN_LBRACE")
    ELSE IF c = CH_rbrace THEN Punct(t, "TOKEN_RBRACE")
    ELSE IF c = CH_lbracket THEN Punct(t, "TOKEN_LBRACKET")
    ELSE IF c = CH_rbracket THEN Punct(t, "TOKEN_RBRACKET")
    ELSE IF c = CH_colon THEN Punct(t, "TOKEN_COLON")
    ELSE IF c = CH_comma THEN Punct(t, "TOKEN_COMMA")
    ELSE IF c = CH_n /\ Keyword(t, <<CH_n, CH_u, CH_l, CH_l>>)
    THEN [t |-> SetCurrent(t, t.cur + 4), token |-> Token("TOKEN_NULL")]
    ELSE IF c = CH_t /\ Keyword(t, <<CH_t, CH_r, CH_u, CH_e>>)
    THEN [t |-> SetCurrent(t, t.cur + 4), token |-> Token("TOKEN_TRUE")]
    ELSE IF c = CH_f /\ Keyword(t, <<CH_f, CH_a, CH_l, CH_s, CH_e>>)
    THEN [t |-> SetCurrent(t, t.cur + 5), token |-> Token("TOKEN_FALSE")]
    ELSE IF c = CH_quote THEN StringToken(tokenize_string(t))
    ELSE IF c = CH_minus \/ isdigit(c) THEN NumberToken(t)
    ELSE TokenError(json_set_error(t, "UNEXPECTED_TOKEN"))

\* the token at the tokenizer's position once whitespace is skipped
TokenHere(t) == TokenAt(t, At(t.src, t.cur))

\* next_token: the token and the tokenizer after it
next_token(t) == TokenHere(skip_whitespace(t))

----------------------------------------------------------------------------
(* Value tree: json_parser.c *)

IsNull(v) == v.type = "NULL"

json_create_null == [type |-> "JSON_NULL"]

json_create_bool(val) == [type |-> "JSON_BOOL", bool_value |-> val]

json_create_number(val) == [type |-> "JSON_NUMBER", number_value |-> val]

\* strcpy stops at the first NUL of val
json_create_string(val) == [type |-> "JSON_STRING", string_value |-> CStr(val)]

json_create_array == [type |-> "JSON_ARRAY", values |-> <<>>, capacity |-> 0]

json_create_object == [type |-> "JSON_OBJECT", pairs |-> <<>>, capacity |-> 0]

\* the blocks json_free(value) frees: one for each value node and one for
\* each object key
RECURSIVE Blocks(_), BlocksOf(_, _)
BlocksOf(children, i) ==
    IF i > Len(children) THEN 0
    ELSE Blocks(children[i]) + BlocksOf(children, i + 1)

Blocks(value) ==
    IF IsNull(value) THEN 0
    ELSE IF value.type = "JSON_ARRAY" THEN 1 + BlocksOf(value.values, 1)
    ELSE IF value.type = "JSON_OBJECT"
    THEN 1 + Len(value.pairs)
           + BlocksOf([i \in 1..Len(value.pairs) |-> value.pairs[i].value], 1)
    ELSE 1

\* json_free(value) in the books of the tokenizer
Freed(t, value) == [t EXCEPT !.heap = @ - Blocks(value)]

\* the storage grows only once the count has passed the capacity
GrowLate(count, capacity) ==
    IF count > capacity
    THEN (IF capacity = 0 THEN 16 ELSE capacity * 2)
    ELSE capacity

\* new_capacity of json_array_append and json_object_set
Grow(count, capacity) ==
    IF count >= capacity
    THEN (IF capacity = 0 THEN 16 ELSE capacity * 2)
    ELSE capacity

json_array_append(array, value) ==
    IF IsNull(array) \/ IsNull(value) THEN [ok |-> FALSE, array |-> array]
    ELSE IF array.type # "JSON_ARRAY" THEN [ok |-> FALSE, array |-> array]
    ELSE [ok |-> TRUE,
          array |-> [array EXCEPT
                        !.capacity = Grow(Len(array.values), @),
                        !.values = Append(@, value)]]

\* index of the first pair whose key strcmp-equals key, 0 if there is none
RECURSIVE KeyIndexFrom(_, _, _)
KeyIndexFrom(pairs, key, i) ==
    IF i > Len(pairs) THEN 0
    ELSE IF pairs[i].key = key THEN i
    ELSE KeyIndexFrom(pairs, key, i + 1)

\* a search that never finds the key
KeyIndexAbsent(pairs, key) == 0

KeyIndex(pairs, key) == KeyIndexFrom(pairs, CStr(key), 1)

\* lines 871-899: the pair found at index i is given the value and its old
\* value is freed, or with i = 0 a new pair is appended with a copy of the
\* key; freed is the value json_free was called on, allocated the number of
\* blocks malloc'ed
SetAt(object, key, value, i) ==
    IF i # 0
    THEN [ok |-> TRUE, object |-> [object EXCEPT !.pairs[i].value = value],
          freed |-> object.pairs[i].value, allocated |-> 0]
    ELSE [ok |-> TRUE,
          object |-> [object EXCEPT
              !.capacity = Grow(Len(object.pairs), @),
              !.pairs = Append(@, [key |-> CStr(key), value |-> value])],
          freed |-> NULL, allocated |-> 1]

json_object_set(object, key, value) ==
    IF IsNull(object) \/ IsNull(value)
    THEN [ok |-> FALSE, object |-> object, freed |-> NULL, allocated |-> 0]
    ELSE IF object.type # "JSON_OBJECT"
    THEN [ok |-> FALSE, object |-> object, freed |-> NULL, allocated |-> 0]
    ELSE SetAt(object, key, value, KeyIndex(object.pairs, key))

----------------------------------------------------------------------------
(* Recursive descent parser: json_parser.c *)

MAX_NESTING_DEPTH == 1000

\* the token r becomes t->current_token
Took(r) == [r.t EXCEPT !.current_token = r.token]

\* t->current_token = next_token(t)
Advance(t) == Took(next_token(t))

\* t->depth--; low keeps the least value the counter has had (a history
\* field, not in the program)
Decremented(t) ==
    [t EXCEPT !.depth = @ - 1,
              !.low = IF t.depth - 1 < @ THEN t.depth - 1 ELSE @]

\* t->depth--; return value
Leave(t, value) == [value |-> value, t |-> Decremented(t)]

\* t->depth++
Enter(t) == [t EXCEPT !.depth = @ + 1]

RECURSIVE parse_value(_), parse_array_loop(_, _), parse_object_loop(_, _)

\* ArrayNext that returns from the unexpected token at lines 585-589
\* without the decrement
ArrayNextHeld(t, array) ==
    IF t.current_token.type = "TOKEN_COMMA"
    THEN parse_array_loop(Advance(t), array)
    ELSE IF t.current_token.type = "TOKEN_RBRACKET" THEN Leave(t, array)
    ELSE [value |-> NULL,
          t |-> json_set_error(Freed(t, array), "UNEXPECTED_TOKEN")]

\* lines 577-590: the token after an element
ArrayNext(t, array) ==
    IF t.current_token.type = "TOKEN_COMMA"
    THEN parse_array_loop(Advance(t), array)
    ELSE IF t.current_token.type = "TOKEN_RBRACKET" THEN Leave(t, array)
    ELSE Leave(json_set_error(Freed(t, array), "UNEXPECTED_TOKEN"), NULL)

\* lines 563-575: the element has been parsed as v says, then appended as
\* app says
ArrayAppend(t, app, value) ==
    IF ~app.ok THEN Leave(Freed(Freed(t, value), app.array), NULL)
    ELSE ArrayNext(Advance(t), app.array)

ArrayElement(array, v) ==
    IF IsNull(v.value) THEN Leave(Freed(v.t, array), NULL)
    ELSE ArrayAppend(v.t, json_array_append(array, v.value), v.value)

\* the while (true) of parse_array, entered with the element's first token
parse_array_loop(t, array) == ArrayElement(array, parse_value(t))

\* lines 556-561: the token after the opening bracket
ArrayOpen(t) ==
    IF t.current_token.type = "TOKEN_RBRACKET"
    THEN Leave(t, json_create_array)
    ELSE parse_array_loop(t, json_create_array)

\* parse_array with >= for > at line 542: the deepest level allowed is
\* refused
parse_array_below_limit(t) ==
    IF t.depth + 1 >= t.limit
    THEN [value |-> NULL, t |-> json_set_error(t, "STACK_OVERFLOW")]
    ELSE ArrayOpen(Advance(Alloc(Enter(t))))

parse_array(t) ==
    IF t.depth + 1 > t.limit
    THEN [value |-> NULL, t |-> json_set_error(t, "STACK_OVERFLOW")]
    ELSE ArrayOpen(Advance(Alloc(Enter(t))))

\* lines 650-665: the token after a member
ObjectNext(t, object) ==
    IF t.current_token.type = "TOKEN_COMMA"
    THEN parse_object_loop(Advance(t), object)
    ELSE IF t.current_token.type = "TOKEN_RBRACE" THEN Leave(t, object)
    ELSE Leave(json_set_error(Freed(t, object), "UNEXPECTED_TOKEN"), NULL)

\* what json_object_set has freed and allocated, as set says
SetBooked(t, set) ==
    [t EXCEPT !.heap = @ + set.allocated - Blocks(set.freed)]

\* lines 634-649: the member's value has been parsed as v says, then set
\* as set says; the key is freed either way
ObjectSet(t, set, value) ==
    IF ~set.ok THEN Leave(Freed(Freed(Free(t), value), set.object), NULL)
    ELSE ObjectNext(Advance(Free(SetBooked(t, set))), set.object)

ObjectValue(object, key, v) ==
    IF IsNull(v.value) THEN Leave(Freed(Free(v.t), object), NULL)
    ELSE ObjectSet(v.t, json_object_set(object, key, v.value), v.value)

\* lines 625-632: the token after the key
ObjectColon(t, object, key) ==
    IF t.current_token.type # "TOKEN_COLON"
    THEN Leave(json_set_error(Freed(Free(t), object), "UNEXPECTED_TOKEN"),
               NULL)
    ELSE ObjectValue(object, key, parse_value(Advance(t)))

\* the while (true) of parse_object, entered with the key's token
parse_object_loop(t, object) ==
    IF t.current_token.type # "TOKEN_STRING"
    THEN Leave(json_set_error(Freed(t, object), "UNEXPECTED_TOKEN"), NULL)
    ELSE ObjectColon(Advance(t), object, t.current_token.string)

\* lines 609-614: the token after the opening brace
ObjectOpen(t) ==
    IF t.current_token.type = "TOKEN_RBRACE"
    THEN Leave(t, json_create_object)
    ELSE parse_object_loop(t, json_create_object)

parse_object(t) ==
    IF t.depth + 1 > t.limit
    THEN [value |-> NULL, t |-> json_set_error(t, "STACK_OVERFLOW")]
    ELSE ObjectOpen(Advance(Alloc(Enter(t))))

\* the switch of parse_value on the type of t->current_token; the token's
\* string is freed once json_create_string has copied it
ValueOf(t, type) ==
    IF type = "TOKEN_NULL" THEN [value |-> json_create_null, t |-> Alloc(t)]
    ELSE IF type = "TOKEN_TRUE"
    THEN [value |-> json_create_bool(TRUE), t |-> Alloc(t)]
    ELSE IF type = "TOKEN_FALSE"
    THEN [value |-> json_create_bool(FALSE), t |-> Alloc(t)]
    ELSE IF type = "TOKEN_NUMBER"
    THEN [value |-> json_create_number(t.current_token.number),
          t |-> Alloc(t)]
    ELSE IF type = "TOKEN_STRING"
    THEN [value |-> json_create_string(t.current_token.string),
          t |-> Free(Alloc(t))]
    ELSE IF type = "TOKEN_LBRACKET" THEN parse_array(t)
    ELSE IF type = "TOKEN_LBRACE" THEN parse_object(t)
    ELSE IF type = "TOKEN_EOF"
    THEN [value |-> NULL, t |-> json_set_error(t, "UNEXPECTED_EOF")]
    ELSE [value |-> NULL, t |-> json_set_error(t, "UNEXPECTED_TOKEN")]

parse_value(t) == ValueOf(t, t.current_token.type)

\* the Tokenizer json_parse_with_error starts from, after json_clear_error;
\* limit is the depth that parse_array and parse_object compare with,
\* MAX_NESTING_DEPTH in the program
Tokenizer(json_string, addr, limit) ==
    [src |-> json_string, cur |-> 1, depth |-> 0,
     current_token |-> Token("TOKEN_ERROR"),
     err |-> "NONE", lexer_code |-> "NONE", base |-> addr,
     heap |-> 0, limit |-> limit, low |-> 0]

\* what json_parse_with_error hands back: the value returned, error.code,
\* and for the properties the lexer's own code, the tokenizer depth, the
\* least depth of the parse and the blocks of the parse that are still
\* allocated
Outcome(value, t) ==
    [value |-> value, error |-> t.err, lexer_code |-> t.lexer_code,
     depth |-> t.depth, heap |-> t.heap, low |-> t.low]

\* lines 721-726: the token nx that follows the value must be TOKEN_EOF
TrailingToken(value, nx) ==
    IF nx.token.type # "TOKEN_EOF"
    THEN Outcome(NULL, json_set_error(Freed(nx.t, value), "UNEXPECTED_TOKEN"))
    ELSE Outcome(value, nx.t)

\* lines 718-730: parse_value has returned r
Parsed(r) ==
    IF IsNull(r.value) THEN Outcome(NULL, r.t)
    ELSE TrailingToken(r.value, next_token(r.t))

\* lines 706-730 with limit for the depth that containers may nest to
ParseWithin(json_string, addr, limit) ==
    Parsed(parse_value(Advance(Tokenizer(json_string, addr, limit))))

\* json_parse_with_error(json_string, &error) for a string at an address
\* that is addr modulo 16
json_parse_with_error(json_string, addr) ==
    ParseWithin(json_string, addr, MAX_NESTING_DEPTH)

----------------------------------------------------------------------------
(* Stringifier: json_stringify.c *)

Repeat(c, n) == [i \in 1..n |-> c]

\* the characters of a sequence of decimal digits
DigitChars(ds) == [i \in 1..Len(ds) |-> CH_zero + ds[i]]

RECURSIVE NatDigits(_)
NatDigits(n) == IF n < 10 THEN <<n>> ELSE NatDigits(n \div 10) \o <<n % 10>>

\* num == (long long)num: num is integral and within the 64-bit range
\* (every integral value below 10^18 is; larger ones are taken as outside)
IsLongLong(num) ==
    num.digits = <<>> \/ (num.exp >= 0 /\ Len(num.digits) + num.exp <= 18)

\* snprintf("%lld", (long long)num)
FormatLld(num) ==
    IF num.digits = <<>> THEN <<CH_zero>>
    ELSE (IF num.neg THEN <<CH_minus>> ELSE <<>>)
         \o DigitChars(num.digits) \o Repeat(CH_zero, num.exp)

\* snprintf("%.17g", num) for a double whose 17 significant digits are
\* those of the decimal it was read from
FormatG17(num) ==
    LET x    == Adjusted(num)
        n    == Len(num.digits)
        sign == IF num.neg THEN <<CH_minus>> ELSE <<>>
        ds   == DigitChars(num.digits)
    IN  IF x >= -4 /\ x < 17
        THEN IF num.exp >= 0 THEN sign \o ds \o Repeat(CH_zero, num.exp)
             ELSE IF x >= 0
             THEN sign \o SubSeq(ds, 1, x + 1) \o <<CH_dot>>
                       \o SubSeq(ds, x + 2, n)
             ELSE sign \o <<CH_zero, CH_dot>> \o Repeat(CH_zero, 0 - x - 1) \o ds
        ELSE sign \o <<ds[1]>>
             \o (IF n > 1 THEN <<CH_dot>> \o SubSeq(ds, 2, n) ELSE <<>>)
             \o <<CH_e, IF x < 0 THEN CH_minus ELSE CH_plus>>
             \o (LET ax == IF x < 0 THEN 0 - x ELSE x IN
                 IF ax < 10 THEN <<CH_zero, CH_zero + ax>>
                 ELSE DigitChars(NatDigits(ax)))

\* one lower-case hexadecimal digit of "%04x"
HexChar(d) == IF d < 10 THEN CH_zero + d ELSE CH_a + (d - 10)

\* escape_and_append_string without its case '"': a quote in a string is
\* appended as it is, and ends the string literal early in the text
EscapeByteQuoteRaw(c) ==
    IF c = CH_backslash THEN <<CH_backslash, CH_backslash>>
    ELSE IF c = CH_lf THEN <<CH_backslash, CH_n>>
    ELSE <<c>>

\* what escape_and_append_string appends for one byte
EscapeByte(c) ==
    IF c = CH_quote THEN <<CH_backslash, CH_quote>>
    ELSE IF c = CH_backslash THEN <<CH_backslash, CH_backslash>>
    ELSE IF c = CH_bs THEN <<CH_backslash, CH_b>>
    ELSE IF c = CH_ff THEN <<CH_backslash, CH_f>>
    ELSE IF c = CH_lf THEN <<CH_backslash, CH_n>>
    ELSE IF c = CH_cr THEN <<CH_backslash, CH_r>>
    ELSE IF c = CH_tab THEN <<CH_backslash, CH_t>>
    ELSE IF c < 32
    THEN <<CH_backslash, CH_u, CH_zero, CH_zero,
           HexChar(c \div 16), HexChar(c % 16)>>
    ELSE <<c>>

RECURSIVE EscapeFrom(_, _)
EscapeFrom(str, i) ==
    IF i > Len(str) THEN <<>> ELSE EscapeByte(str[i]) \o EscapeFrom(str, i + 1)

escape_and_append_string(str) == <<CH_quote>> \o EscapeFrom(str, 1) \o <<CH_quote>>

append_indent(pty, indent_level) ==
    IF pty THEN <<CH_lf>> \o Repeat(CH_space, indent_level * 2) ELSE <<>>

RECURSIVE stringify_value(_, _, _)
RECURSIVE stringify_array(_, _, _, _), stringify_object(_, _, _, _)

\* the for loop of stringify_array from element i on
stringify_array(arr, pty, indent_level, i) ==
    IF i > Len(arr) THEN <<>>
    ELSE append_indent(pty, indent_level)
         \o stringify_value(arr[i], pty, indent_level)
         \o (IF i < Len(arr) THEN <<CH_comma>> ELSE <<>>)
         \o stringify_array(arr, pty, indent_level, i + 1)

\* the for loop of stringify_object from pair i on
stringify_object(pairs, pty, indent_level, i) ==
    IF i > Len(pairs) THEN <<>>
    ELSE append_indent(pty, indent_level)
         \o escape_and_append_string(pairs[i].key)
         \o <<CH_colon>> \o (IF pty THEN <<CH_space>> ELSE <<>>)
         \o stringify_value(pairs[i].value, pty, indent_level)
         \o (IF i < Len(pairs) THEN <<CH_comma>> ELSE <<>>)
         \o stringify_object(pairs, pty, indent_level, i + 1)

stringify_value(value, pty, indent_level) ==
    IF IsNull(value) \/ value.type = "JSON_NULL"
    THEN <<CH_n, CH_u, CH_l, CH_l>>
    ELSE IF value.type = "JSON_BOOL"
    THEN (IF value.bool_value THEN <<CH_t, CH_r, CH_u, CH_e>>
          ELSE <<CH_f, CH_a, CH_l, CH_s, CH_e>>)
    ELSE IF value.type = "JSON_NUMBER"
    THEN (IF IsLongLong(value.number_value)
          THEN FormatLld(value.number_value)
          ELSE FormatG17(value.number_value))
    ELSE IF value.type = "JSON_STRING"
    THEN escape_and_append_string(value.string_value)
    ELSE IF value.type = "JSON_ARRAY"
    THEN <<CH_lbracket>>
         \o stringify_array(value.values, pty, indent_level + 1, 1)
         \o (IF Len(value.values) > 0
             THEN append_indent(pty, indent_level) ELSE <<>>)
         \o <<CH_rbracket>>
    ELSE <<CH_lbrace>>
         \o stringify_object(value.pairs, pty, indent_level + 1, 1)
         \o (IF Len(value.pairs) > 0
             THEN append_indent(pty, indent_level) ELSE <<>>)
         \o <<CH_rbrace>>

\* json_stringify(value, pretty): the buffer returned; NULL for a NULL value
json_stringify(value, pty) ==
    IF IsNull(value) THEN NULL
    ELSE [type |-> "text",
          bytes |-> stringify_value(value, pty, 0)
                    \o (IF pty /\ value.type \in {"JSON_OBJECT", "JSON_ARRAY"}
                        THEN <<CH_lf>> ELSE <<>>)]

----------------------------------------------------------------------------
(* Structural equality: json_utils.c *)

\* == on two finite doubles (-0.0 == 0.0)
DoubleEq(x, y) ==
    /\ x.digits = y.digits
    /\ x.exp = y.exp
    /\ (x.neg = y.neg \/ x.digits = <<>>)

\* json_object_get as json_equals uses it: the value under key, or NULL
json_object_get(object, key) ==
    IF IsNull(object) THEN NULL
    ELSE IF object.type # "JSON_OBJECT" THEN NULL
    ELSE LET i == KeyIndex(object.pairs, key) IN
         IF i = 0 THEN NULL ELSE object.pairs[i].value

RECURSIVE json_equals(_, _)

\* json_equals without the comparison of the counts of two objects
json_equals_uncounted(val1, val2) ==
    IF IsNull(val1) /\ IsNull(val2) THEN TRUE
    ELSE IF IsNull(val1) \/ IsNull(val2) THEN FALSE
    ELSE IF val1.type # val2.type THEN FALSE
    ELSE IF val1.type = "JSON_NULL" THEN TRUE
    ELSE IF val1.type = "JSON_BOOL" THEN val1.bool_value = val2.bool_value
    ELSE IF val1.type = "JSON_NUMBER"
    THEN DoubleEq(val1.number_value, val2.number_value)
    ELSE IF val1.type = "JSON_STRING"
    THEN val1.string_value = val2.string_value
    ELSE IF val1.type = "JSON_ARRAY"
    THEN /\ Len(val1.values) = Len(val2.values)
         /\ \A i \in 1..Len(val1.values) :
                json_equals(val1.values[i], val2.values[i])
    ELSE \A i \in 1..Len(val1.pairs) :
             LET val == json_object_get(val2, val1.pairs[i].key) IN
             ~IsNull(val) /\ json_equals(val1.pairs[i].value, val)

json_equals(val1, val2) ==
    IF IsNull(val1) /\ IsNull(val2) THEN TRUE
    ELSE IF IsNull(val1) \/ IsNull(val2) THEN FALSE
    ELSE IF val1.type # val2.type THEN FALSE
    ELSE IF val1.type = "JSON_NULL" THEN TRUE
    ELSE IF val1.type = "JSON_BOOL" THEN val1.bool_value = val2.bool_value
    ELSE IF val1.type = "JSON_NUMBER"
    THEN DoubleEq(val1.number_value, val2.number_value)
    ELSE IF val1.type = "JSON_STRING"
    THEN val1.string_value = val2.string_value
    ELSE IF val1.type = "JSON_ARRAY"
    THEN /\ Len(val1.values) = Len(val2.values)
         /\ \A i \in 1..Len(val1.values) :
                json_equals(val1.values[i], val2.values[i])
    ELSE /\ Len(val1.pairs) = Len(val2.pairs)
         /\ \A i \in 1..Len(val1.pairs) :
                LET val == json_object_get(val2, val1.pairs[i].key) IN
                ~IsNull(val) /\ json_equals(val1.pairs[i].value, val)

----------------------------------------------------------------------------
(* Inputs *)

\* the parser, the serializer and the stream driver are studied with no
\* block of the value interface allocated and no pointer held
NoMemory == [block |-> <<>>, undefined |-> FALSE, error |-> "NONE"]

NoPointers == <<>>

\* every concatenation of at most n members of pieces
RECURSIVE Concats(_, _)
Concats(pieces, n) ==
    IF n = 0 THEN {<<>>}
    ELSE LET shorter == Concats(pieces, n - 1) IN
         shorter \cup {d \o p : d \in shorter, p \in pieces}

MaxLexPieces == 3

\* fragments of documents that exercise the lexer's error paths
LexPieces ==
    { <<CH_zero>>, <<CH_one>>, <<CH_minus>>, <<CH_dot>>,
      <<CH_e, 51, CH_zero, CH_nine>>,               \* e309
      <<CH_quote>>, <<CH_backslash>>,
      <<CH_u, 100, 56, CH_zero, CH_zero>>,          \* ud800
      <<1>>, <<CH_space>>, <<CH_comma>>,
      <<CH_t, CH_r, CH_u, CH_e>> }

\* where the fragments stand: at top level, in an array, after an array
\* element, as an object member's value
LexContexts ==
    { [prefix |-> <<>>, suffix |-> <<>>],
      [prefix |-> <<CH_lbracket>>, suffix |-> <<CH_rbracket>>],
      [prefix |-> <<CH_lbracket, CH_one, CH_comma>>, suffix |-> <<CH_rbracket>>],
      [prefix |-> <<CH_lbrace, CH_quote, CH_a, CH_quote, CH_colon>>,
       suffix |-> <<CH_rbrace>>] }

LexDocs ==
    {c.prefix \o d \o c.suffix :
        c \in LexContexts, d \in Concats(LexPieces, MaxLexPieces)}

NoParser == [buffer |-> <<>>]

----------------------------------------------------------------------------
(* One-shot parsing *)

InitParse ==
    /\ doc \in LexDocs
    /\ base \in {0, 1}
    /\ pc = "start"
    /\ result = NULL
    /\ text = NULL
    /\ result2 = NULL
    /\ pretty = FALSE
    /\ parser = NoParser
    /\ consumed = 0
    /\ events = <<>>
    /\ before = 0
    /\ returned = "none"
    /\ refused = {}
    /\ failures = 0
    /\ g_json_last_error = "NONE"
    /\ mem = NoMemory
    /\ held = NoPointers

\* result = json_parse_with_error(doc, &error)
Parse ==
    /\ pc = "start"
    /\ result' = json_parse_with_error(doc, base)
    /\ g_json_last_error' = result'.error
    /\ pc' = "parsed"
    /\ UNCHANGED <<mem, held, doc, text, result2, pretty, base, parser, consumed,
                   events, before, returned, refused, failures>>

NextParse == Parse

SpecParse == InitParse /\ [][NextParse]_vars

\* the codes that only the lexer sets
LexerCodes ==
    {"LEADING_ZERO", "NUMBER_OUT_OF_RANGE", "INVALID_NUMBER",
     "INVALID_ESCAPE", "INVALID_SURROGATE", "UNTERMINATED_STRING",
     "INVALID_SYNTAX"}

\* C3: when the lexer has rejected a token with one of its own codes,
\* json_parse_with_error returns no value and reports that same code.
LexerCodeReachesCaller ==
    (pc = "parsed" /\ result.lexer_code \in LexerCodes) =>
        /\ IsNull(result.value)
        /\ result.error = result.lexer_code

\* the document 01 has been parsed, at top level
LeadingZeroParsed ==
    /\ pc = "parsed"
    /\ doc = <<CH_zero, CH_one>>
    /\ result.lexer_code = "LEADING_ZERO"

----------------------------------------------------------------------------
(* Round trip: parse, stringify, parse again *)

MaxRoundTripPieces == 3

\* fragments of valid documents: integers, keywords, and strings with
\* escapes
RoundTripPieces ==
    { <<CH_minus>>, <<CH_zero>>, <<CH_one>>, <<CH_e, CH_one>>,
      <<CH_quote>>, <<CH_a>>,
      <<CH_backslash, CH_quote>>, <<CH_backslash, CH_n>>,
      <<CH_backslash, CH_slash>>,
      <<CH_backslash, CH_u, CH_zero, CH_zero, CH_one, CH_f>>,     \* \u001f
      <<CH_backslash, CH_u, CH_zero, CH_zero, CH_e, CH_nine>>,    \* \u00e9
      <<CH_t, CH_r, CH_u, CH_e>>, <<CH_n, CH_u, CH_l, CH_l>>,
      <<CH_comma>>, <<CH_space>> }

\* at top level, in an array, as an object member's value, as the value of
\* a key that is given twice, and two containers deep
RoundTripContexts ==
    { [prefix |-> <<>>, suffix |-> <<>>],
      [prefix |-> <<CH_lbracket>>, suffix |-> <<CH_rbracket>>],
      [prefix |-> <<CH_lbrace, CH_quote, CH_a, CH_quote, CH_colon>>,
       suffix |-> <<CH_rbrace>>],
      [prefix |-> <<CH_lbrace, CH_quote, CH_a, CH_quote, CH_colon, CH_one,
                    CH_comma, CH_quote, CH_a, CH_quote, CH_colon>>,
       suffix |-> <<CH_rbrace>>],
      [prefix |-> <<CH_lbracket, CH_lbrace, CH_quote, CH_b, CH_quote,
                    CH_colon, CH_lbracket>>,
       suffix |-> <<CH_rbracket, CH_rbrace, CH_comma, CH_lbracket,
                    CH_rbracket, CH_rbracket>>] }

RoundTripDocs ==
    {c.prefix \o d \o c.suffix :
        c \in RoundTripContexts,
        d \in Concats(RoundTripPieces, MaxRoundTripPieces)}

InitRoundTrip ==
    /\ doc \in RoundTripDocs
    /\ base = 0
    /\ pc = "start"
    /\ result = NULL
    /\ text = NULL
    /\ result2 = NULL
    /\ pretty = FALSE
    /\ parser = NoParser
    /\ consumed = 0
    /\ events = <<>>
    /\ before = 0
    /\ returned = "none"
    /\ refused = {}
    /\ failures = 0
    /\ g_json_last_error = "NONE"
    /\ mem = NoMemory
    /\ held = NoPointers

\* text = json_stringify(result, pretty) for a document that parsed
Stringify ==
    /\ pc = "parsed"
    /\ ~IsNull(result.value)
    /\ text' = json_stringify(result.value, pretty)
    /\ pc' = "printed"
    /\ UNCHANGED <<mem, held, doc, result, result2, pretty, base, parser, consumed,
                   events, before, returned, refused, failures,
                   g_json_last_error>>

\* result2 = json_parse_with_error(text, &error)
Reparse ==
    /\ pc = "printed"
    /\ ~IsNull(text)
    /\ result2' = json_parse_with_error(text.bytes, 0)
    /\ g_json_last_error' = result2'.error
    /\ pc' = "reparsed"
    /\ UNCHANGED <<mem, held, doc, result, text, pretty, base, parser, consumed,
                   events, before, returned, refused, failures>>

NextRoundTrip == Parse \/ Stringify \/ Reparse

SpecRoundTrip == InitRoundTrip /\ [][NextRoundTrip]_vars

\* C2: whenever a document has parsed, stringifying the tree compactly
\* gives a text, and parsing that text succeeds and gives a tree that
\* json_equals finds equal to the first one.
RoundTripLossless ==
    /\ pc = "printed" => ~IsNull(text)
    /\ pc = "reparsed" =>
           /\ ~IsNull(result2.value)
           /\ json_equals(result2.value, result.value)
           /\ json_equals(result.value, result2.value)

\* a round trip of an array whose first element is a string that was
\* written with the escape \/, so that the text printed differs from the
\* document read
RoundTripWitness ==
    /\ pc = "reparsed"
    /\ ~pretty
    /\ result.value.type = "JSON_ARRAY"
    /\ Len(result.value.values) >= 1
    /\ result.value.values[1].type = "JSON_STRING"
    /\ \E i \in 1..Len(result.value.values[1].string_value) :
           result.value.values[1].string_value[i] = CH_slash
    /\ text.bytes # doc
    /\ json_equals(result2.value, result.value)

----------------------------------------------------------------------------
(* Stream driver: json_streaming.c *)

STREAM_BUFFER_SIZE == 8192
MAX_STREAM_DEPTH == 256
MAX_STREAM_BYTES == 104857600

\* json_stream_parser_create(callback, user_data) with a callback
json_stream_parser_create ==
    [buffer |-> <<>>, buffer_capacity |-> STREAM_BUFFER_SIZE,
     depth |-> 0, in_string |-> FALSE, escaped |-> FALSE,
     error |-> "NONE", state |-> "STREAM_STATE_START",
     objects_parsed |-> 0, arrays_parsed |-> 0, values_parsed |-> 0]

\* What a stream call works on: the parser, the events delivered so far,
\* the last-error code, the index in doc of the byte last taken (at), and
\* the delivery on which the callback returns false (cancel_at, 0: none).
Driver(p, evs, err, at, cancel_at) ==
    [parser |-> p, events |-> evs, err |-> err, at |-> at,
     cancel_at |-> cancel_at, cancelled |-> FALSE]

\* stream_emit_event: delivers the event and returns the callback's answer
stream_emit_event(d, type, value) ==
    LET n == Len(d.events) + 1 IN
    [d  |-> [d EXCEPT !.events = Append(@, [type |-> type, value |-> value,
                                           at |-> d.at]),
                      !.cancelled = @ \/ n = d.cancel_at],
     ok |-> n # d.cancel_at]

\* lines 87-90: the VALUE event has been delivered as e says
ValueDelivered(e) == [d |-> [e.d EXCEPT !.parser.buffer = <<>>], ok |-> e.ok]

\* lines 83-100: json_parse_with_error has given r for the buffer
BufferParsed(d, r) ==
    IF ~IsNull(r.value)
    THEN ValueDelivered(stream_emit_event([d EXCEPT !.err = r.error],
                                          "VALUE", r.value))
    ELSE IF r.error # "UNEXPECTED_EOF"
    THEN [d  |-> stream_emit_event([d EXCEPT !.err = r.error,
                                             !.parser.error = r.error],
                                   "ERROR", NULL).d,
          ok |-> FALSE]
    ELSE [d |-> [d EXCEPT !.err = r.error], ok |-> TRUE]

\* the buffer is malloc'ed, so its address is 0 modulo 16
stream_try_parse_complete_value(d) ==
    IF Len(d.parser.buffer) = 0 THEN [d |-> d, ok |-> TRUE]
    ELSE BufferParsed(d, json_parse_with_error(CStr(d.parser.buffer), 0))

\* lines 124-127: new_capacity
Doubled(capacity) ==
    IF capacity * 2 > MAX_STREAM_BYTES THEN MAX_STREAM_BYTES ELSE capacity * 2

\* lines 124-139: the byte is appended, the buffer grown first if full says
Buffered(d, c, full) ==
    [d EXCEPT !.parser.buffer_capacity = IF full THEN Doubled(@) ELSE @,
              !.parser.buffer = Append(@, c),
              !.at = @ + 1]

\* lines 117-139: ok is FALSE when the buffer may grow no more
Room(d, c, full) ==
    IF full /\ d.parser.buffer_capacity >= MAX_STREAM_BYTES
    THEN [d |-> [d EXCEPT !.err = "OUT_OF_MEMORY"], ok |-> FALSE]
    ELSE [d |-> Buffered(d, c, full), ok |-> TRUE]

BufferByte(d, c) ==
    Room(d, c, Len(d.parser.buffer) + 2 >= d.parser.buffer_capacity)

\* lines 165-175: the depth has been raised
Opened(d, c) ==
    IF d.parser.depth = 1 /\ Len(d.parser.buffer) = 1
    THEN IF c = CH_lbrace
         THEN stream_emit_event([d EXCEPT !.parser.objects_parsed = @ + 1],
                                "OBJECT_START", NULL)
         ELSE stream_emit_event([d EXCEPT !.parser.arrays_parsed = @ + 1],
                                "ARRAY_START", NULL)
    ELSE [d |-> d, ok |-> TRUE]

\* lines 159-176: an opening bracket outside a string
OpenBracket(d, c) ==
    IF d.parser.depth >= MAX_STREAM_DEPTH
    THEN [d |-> [d EXCEPT !.err = "STACK_OVERFLOW"], ok |-> FALSE]
    ELSE Opened([d EXCEPT !.parser.depth = @ + 1], c)

\* lines 180-188: stream_try_parse_complete_value has returned r
Completed(r, c) ==
    IF ~r.ok THEN r
    ELSE stream_emit_event(
             [r.d EXCEPT !.parser.values_parsed = @ + 1],
             IF c = CH_rbrace THEN "OBJECT_END" ELSE "ARRAY_END", NULL)

\* lines 179-189: the depth has been lowered
Closed(d, c) ==
    IF d.parser.depth # 0 THEN [d |-> d, ok |-> TRUE]
    ELSE Completed(stream_try_parse_complete_value(d), c)

\* lines 177-189: a closing bracket outside a string
CloseBracket(d, c) == Closed([d EXCEPT !.parser.depth = @ - 1], c)

\* lines 157-195 without the in_string branch of lines 148-156: brackets
\* are counted inside string literals too
TrackByteInStrings(d, c) ==
    IF c = CH_lbrace \/ c = CH_lbracket THEN OpenBracket(d, c)
    ELSE IF c = CH_rbrace \/ c = CH_rbracket THEN CloseBracket(d, c)
    ELSE [d |-> d, ok |-> TRUE]

\* lines 148-195 without the escape-pending flag of lines 149-152: a quote
\* ends the string whatever precedes it
TrackByteUnescaped(d, c) ==
    IF d.parser.in_string
    THEN [d |-> IF c = CH_quote THEN [d EXCEPT !.parser.in_string = FALSE]
                ELSE d,
          ok |-> TRUE]
    ELSE IF c = CH_quote
    THEN [d |-> [d EXCEPT !.parser.in_string = TRUE], ok |-> TRUE]
    ELSE IF c = CH_lbrace \/ c = CH_lbracket THEN OpenBracket(d, c)
    ELSE IF c = CH_rbrace \/ c = CH_rbracket THEN CloseBracket(d, c)
    ELSE [d |-> d, ok |-> TRUE]

\* lines 148-195: the flags, the depth and the events for one buffered byte
TrackByte(d, c) ==
    IF d.parser.in_string
    THEN [d |-> IF d.parser.escaped THEN [d EXCEPT !.parser.escaped = FALSE]
                ELSE IF c = CH_backslash
                THEN [d EXCEPT !.parser.escaped = TRUE]
                ELSE IF c = CH_quote
                THEN [d EXCEPT !.parser.in_string = FALSE]
                ELSE d,
          ok |-> TRUE]
    ELSE IF c = CH_quote
    THEN [d |-> [d EXCEPT !.parser.in_string = TRUE], ok |-> TRUE]
    ELSE IF c = CH_lbrace \/ c = CH_lbracket THEN OpenBracket(d, c)
    ELSE IF c = CH_rbrace \/ c = CH_rbracket THEN CloseBracket(d, c)
    ELSE IF d.parser.depth = 0 /\ ~isspace(c)
    THEN [d |-> d, ok |-> TRUE]      \* lines 190-194 change nothing
    ELSE [d |-> d, ok |-> TRUE]

RECURSIVE ChunkLoop(_, _, _)

\* the byte chunk[i] has been tracked as r says
Tracked(r, chunk, i) == IF ~r.ok THEN r ELSE ChunkLoop(r.d, chunk, i + 1)

\* the byte chunk[i] has been buffered as b says
Stored(b, chunk, i) ==
    IF ~b.ok THEN b ELSE Tracked(TrackByte(b.d, chunk[i]), chunk, i)

\* the for loop of json_stream_parse_chunk from chunk[i] on, then lines
\* 198-202
ChunkLoop(d, chunk, i) ==
    IF i > Len(chunk)
    THEN IF d.parser.depth = 0 /\ Len(d.parser.buffer) > 0
         THEN stream_try_parse_complete_value(d)
         ELSE [d |-> d, ok |-> TRUE]
    ELSE Stored(BufferByte(d, chunk[i]), chunk, i)

json_stream_parse_chunk(d, chunk) ==
    IF Len(chunk) > MAX_STREAM_BYTES
    THEN [d |-> [d EXCEPT !.err = "OUT_OF_MEMORY"], ok |-> FALSE]
    ELSE ChunkLoop(d, chunk, 1)

RECURSIVE ReadLoop(_, _, _)

\* json_stream_parse_chunk has returned r for the bytes before offset off
ChunkRead(r, file, off) == IF ~r.ok THEN r ELSE ReadLoop(r.d, file, off)

\* fread gives bytes_read bytes from offset off
Read(d, file, off, bytes_read) ==
    ChunkRead(json_stream_parse_chunk(
                  d, SubSeq(file, off + 1, off + bytes_read)),
              file, off + bytes_read)

\* the fread loop of json_stream_parse_file over the file's bytes from
\* offset off on
ReadLoop(d, file, off) ==
    IF off >= Len(file) THEN [d |-> d, ok |-> TRUE]
    ELSE Read(d, file, off,
              IF Len(file) - off < STREAM_BUFFER_SIZE
              THEN Len(file) - off ELSE STREAM_BUFFER_SIZE)

\* lines 234-239: success is f.ok
AtEnd(f) ==
    IF f.ok THEN [d |-> stream_emit_event(f.d, "EOF", NULL).d, ok |-> TRUE]
    ELSE f

\* lines 230-232: the loop has ended as r says
FileRead(r) ==
    IF r.ok /\ Len(r.d.parser.buffer) > 0
    THEN AtEnd(stream_try_parse_complete_value(r.d))
    ELSE AtEnd(r)

\* json_stream_parse_file on a file that opens and holds these bytes
json_stream_parse_file(d, file) == FileRead(ReadLoop(d, file, 0))

MaxStreamPieces == 3

\* the caller gives up after this many stream calls have returned false
MaxFailedCalls == 2

\* a string literal that holds a closing bracket: "]"
StringPiece == <<CH_quote, CH_rbracket, CH_quote>>

StreamPieces ==
    { <<CH_lbracket>>, <<CH_rbracket>>, <<CH_lbrace>>, <<CH_rbrace>>,
      <<CH_comma>>, <<CH_one>>, <<CH_space>>, StringPiece }

\* where the fragments stand: at top level, in an array, and as the value
\* of an object member whose key holds an escaped quote, {"\"": ... }
StreamContexts ==
    { [prefix |-> <<>>, suffix |-> <<>>],
      [prefix |-> <<CH_lbracket>>, suffix |-> <<CH_rbracket>>],
      [prefix |-> <<CH_lbrace, CH_quote, CH_backslash, CH_quote, CH_quote,
                    CH_colon>>,
       suffix |-> <<CH_rbrace>>] }

StreamDocs ==
    {c.prefix \o d \o c.suffix :
        c \in StreamContexts, d \in Concats(StreamPieces, MaxStreamPieces)}

Init ==
    /\ doc \in StreamDocs
    /\ pc = "stream"
    /\ parser = json_stream_parser_create
    /\ consumed = 0
    /\ events = <<>>
    /\ before = 0
    /\ returned = "none"
    /\ refused = {}
    /\ failures = 0
    /\ g_json_last_error = "NONE"
    /\ mem = NoMemory
    /\ held = NoPointers
    /\ base = 0
    /\ result = NULL
    /\ text = NULL
    /\ result2 = NULL
    /\ pretty = FALSE

\* what the stream call leaves behind whose run is r
AfterCall(r) ==
    /\ parser' = r.d.parser
    /\ events' = r.d.events
    /\ g_json_last_error' = r.d.err
    /\ refused' = IF r.d.cancelled THEN refused \cup {r.d.cancel_at}
                  ELSE refused
    /\ before' = Len(events)
    /\ returned' = IF r.ok THEN "true" ELSE "false"
    /\ failures' = IF r.ok THEN failures ELSE failures + 1

\* the delivery at which the callback answers false when it refuses the
\* k-th delivery of the next call (0: it refuses none)
CancelAt(k) == IF k = 0 THEN 0 ELSE Len(events) + k

\* the deliveries of a call whose run is free when the callback refuses none
Deliveries(free) == Len(free.d.events) - Len(events)

\* json_stream_parse_chunk(parser, chunk, length) for the next bytes of doc
ChunkCall(chunk, k) ==
    json_stream_parse_chunk(
        Driver(parser, events, g_json_last_error, consumed, CancelAt(k)),
        chunk)

\* the runs of the call: free, or with one of its deliveries refused
ChunkRuns(chunk, free) ==
    \E k \in 0..Deliveries(free) :
        AfterCall(IF k = 0 THEN free ELSE ChunkCall(chunk, k))

Chunk ==
    /\ pc = "stream"
    /\ failures < MaxFailedCalls
    /\ \E n \in 1..(Len(doc) - consumed) :
           /\ ChunkRuns(SubSeq(doc, consumed + 1, consumed + n),
                        ChunkCall(SubSeq(doc, consumed + 1, consumed + n), 0))
           /\ consumed' = consumed + n
    /\ UNCHANGED <<mem, held, doc, pc, base, result, text, result2, pretty>>

\* json_stream_parse_file(parser, filename) on a file holding the rest of doc
FileCall(file, k) ==
    json_stream_parse_file(
        Driver(parser, events, g_json_last_error, consumed, CancelAt(k)),
        file)

FileRuns(file, free) ==
    \E k \in 0..Deliveries(free) :
        AfterCall(IF k = 0 THEN free ELSE FileCall(file, k))

ParseFile ==
    /\ pc = "stream"
    /\ failures < MaxFailedCalls
    /\ FileRuns(SubSeq(doc, consumed + 1, Len(doc)),
                FileCall(SubSeq(doc, consumed + 1, Len(doc)), 0))
    /\ consumed' = Len(doc)
    /\ pc' = "eof"
    /\ UNCHANGED <<mem, held, doc, base, result, text, result2, pretty>>

Next == Chunk \/ ParseFile

Spec == Init /\ [][Next]_vars

----------------------------------------------------------------------------
(* Properties of the stream driver *)

json_parse(json_string) == json_parse_with_error(json_string, 0).value

Accepted(json_string) == ~IsNull(json_parse(json_string))

EventTypes == [i \in 1..Len(events) |-> events[i].type]

\* how many of the first n events have a type in types
CountIn(types, n) == Cardinality({i \in 1..n : events[i].type \in types})

Count(types) == CountIn(types, Len(events))

\* the trees of the VALUE events, in the order delivered
RECURSIVE ValuesFrom(_)
ValuesFrom(i) ==
    IF i > Len(events) THEN <<>>
    ELSE IF events[i].type = "VALUE"
    THEN <<events[i].value>> \o ValuesFrom(i + 1)
    ELSE ValuesFrom(i + 1)

Values == ValuesFrom(1)

\* all of doc has been fed by json_stream_parse_chunk calls and the callback
\* has always answered true
AllFedInChunks == pc = "stream" /\ consumed = Len(doc) /\ refused = {}

\* JSON's own reading of the brackets of s from s[i] on, outside string
\* literals: whether a closing bracket has no opening bracket to match, the
\* containers left open at the end, and whether s ends inside a string.
\* A closing bracket matches the opening one two codes below it: [ is 91
\* and ] is 93, { is 123 and } is 125.
RECURSIVE Brackets(_, _, _, _, _)
Brackets(s, i, open, in_string, escaped) ==
    IF i > Len(s)
    THEN [fault |-> FALSE, open |-> open, in_string |-> in_string]
    ELSE IF in_string
    THEN Brackets(s, i + 1, open,
                  escaped \/ s[i] # CH_quote,
                  ~escaped /\ s[i] = CH_backslash)
    ELSE IF s[i] = CH_quote THEN Brackets(s, i + 1, open, TRUE, FALSE)
    ELSE IF s[i] \in {CH_lbracket, CH_lbrace}
    THEN Brackets(s, i + 1, Append(open, s[i]), FALSE, FALSE)
    ELSE IF s[i] \in {CH_rbracket, CH_rbrace}
    THEN IF open = <<>> \/ open[Len(open)] # s[i] - 2
         THEN [fault |-> TRUE, open |-> open, in_string |-> FALSE]
         ELSE Brackets(s, i + 1, SubSeq(open, 1, Len(open) - 1), FALSE, FALSE)
    ELSE Brackets(s, i + 1, open, FALSE, FALSE)

BracketsOf(s) == Brackets(s, 1, <<>>, FALSE, FALSE)

\* C1: once an accepted document has been fed, in whatever chunks, exactly
\* one VALUE event has been delivered, its tree is json_equals-equal to
\* json_parse of the document, and no ERROR event has been delivered.
StreamEquivalence ==
    (AllFedInChunks /\ Accepted(doc)) =>
        /\ Count({"ERROR"}) = 0
        /\ Len(Values) = 1
        /\ json_equals(Values[1], json_parse(doc))

\* the document 11 has been fed as two chunks of one byte
ScalarSplit ==
    /\ AllFedInChunks
    /\ doc = <<CH_one, CH_one>>
    /\ before = 1

\* index of the last byte of doc that is not whitespace
LastByte ==
    CHOOSE i \in 1..Len(doc) :
        /\ ~is_json_whitespace(doc[i])
        /\ \A j \in (i + 1)..Len(doc) : is_json_whitespace(doc[j])

\* an accepted document whose first byte opens a container
ContainerDocument ==
    /\ Len(doc) >= 1
    /\ doc[1] \in {CH_lbracket, CH_lbrace}
    /\ Accepted(doc)

StartType == IF doc[1] = CH_lbracket THEN "ARRAY_START" ELSE "OBJECT_START"

EndType == IF doc[1] = CH_lbracket THEN "ARRAY_END" ELSE "OBJECT_END"

\* the events due for a container document of which n bytes have been fed:
\* their types, and the byte at which each is delivered
TypesDue(n) ==
    (IF n >= 1 THEN <<StartType>> ELSE <<>>)
    \o (IF n >= LastByte THEN <<"VALUE", EndType>> ELSE <<>>)
    \o (IF pc = "eof" THEN <<"EOF">> ELSE <<>>)

BytesDue(n) ==
    (IF n >= 1 THEN <<1>> ELSE <<>>)
    \o (IF n >= LastByte THEN <<LastByte, LastByte>> ELSE <<>>)
    \o (IF pc = "eof" THEN <<Len(doc)>> ELSE <<>>)

\* C4: for an accepted document that starts with [ or { and stays within
\* MAX_STREAM_DEPTH and MAX_STREAM_BYTES, fed in any chunks to a callback
\* that always answers true, no call fails and the events
\* delivered are: the START as soon as the first byte is fed; the VALUE
\* with the whole tree and then the END as soon as the closing byte is fed;
\* and EOF last, once json_stream_parse_file has returned.
EventOrder ==
    (ContainerDocument /\ refused = {}) =>
        /\ returned # "false"
        /\ EventTypes = TypesDue(consumed)
        /\ [i \in 1..Len(events) |-> events[i].at] = BytesDue(consumed)
        /\ \A i \in 1..Len(events) :
               IF events[i].type = "VALUE"
               THEN json_equals(events[i].value, json_parse(doc))
               ELSE IsNull(events[i].value)

\* an object that holds a container was fed in more than one call, the
\* last being json_stream_parse_file, which delivered VALUE, END and EOF
EventOrderWitness ==
    /\ ContainerDocument
    /\ refused = {}
    /\ pc = "eof"
    /\ doc[1] = CH_lbrace
    /\ Len(BracketsOf(SubSeq(doc, 1, Len(doc) - 2)).open) = 2
    /\ before = 1
    /\ EventTypes = <<"OBJECT_START", "VALUE", "OBJECT_END", "EOF">>

\* C5: once the bytes fed hold a closing bracket, outside strings, that no
\* opening bracket matches, an ERROR event has been delivered and a call
\* has returned false.
FaultsReported ==
    (pc = "stream" /\ refused = {}
     /\ BracketsOf(SubSeq(doc, 1, consumed)).fault) =>
        /\ Count({"ERROR"}) >= 1
        /\ failures >= 1

\* the document ] has been fed
StrayBracketFed ==
    /\ pc = "stream"
    /\ doc = <<CH_rbracket>>
    /\ consumed = 1
    /\ refused = {}

\* C6: after an ERROR event, json_stream_parse_chunk calls on the same
\* parser deliver no VALUE, START or END event (the ERROR ends its call, so
\* an event that follows it comes from a later call).
ErrorsAreFatal ==
    pc = "stream" =>
        \A i \in 1..Len(events) : \A j \in (i + 1)..Len(events) :
            events[i].type = "ERROR" =>
                events[j].type \notin {"VALUE", "OBJECT_START", "ARRAY_START",
                                       "OBJECT_END", "ARRAY_END"}

\* a call has delivered ERROR and returned false, and a later call was made
CalledAfterError ==
    /\ pc = "stream"
    /\ failures = 1
    /\ before >= 1
    /\ events[before].type = "ERROR"
    /\ consumed > events[before].at

\* C7: once two accepted values with a space between them have been fed,
\* in whatever chunks, two VALUE events have been delivered, the first
\* equal to json_parse of the first value and the second to json_parse of
\* the second, and no ERROR event.
MultiDocument ==
    \A i \in 2..(Len(doc) - 1) :
        (/\ AllFedInChunks
         /\ doc[i] = CH_space
         /\ Accepted(SubSeq(doc, 1, i - 1))
         /\ Accepted(SubSeq(doc, i + 1, Len(doc)))) =>
            /\ Count({"ERROR"}) = 0
            /\ Len(Values) = 2
            /\ json_equals(Values[1], json_parse(SubSeq(doc, 1, i - 1)))
            /\ json_equals(Values[2], json_parse(SubSeq(doc, i + 1, Len(doc))))

\* the document 1 1 has been fed as one chunk
TwoScalarsInOneChunk ==
    /\ AllFedInChunks
    /\ doc = <<CH_one, CH_space, CH_one>>
    /\ before = 0

\* C8: every OBJECT_END or ARRAY_END event delivered is preceded by a START
\* event of its kind that no earlier END has matched.
OpensAnnounced ==
    \A n \in 1..Len(events) :
        /\ CountIn({"ARRAY_END"}, n) <= CountIn({"ARRAY_START"}, n)
        /\ CountIn({"OBJECT_END"}, n) <= CountIn({"OBJECT_START"}, n)

\* an array that follows a space has been fed
ArrayAfterSpace ==
    /\ AllFedInChunks
    /\ doc = <<CH_space, CH_lbracket, CH_rbracket>>

\* the last call was a json_stream_parse_chunk call in which the callback
\* answered delivery i, a START, VALUE or END event, with false
RefusedInLastCall(i) ==
    /\ pc = "stream"
    /\ i \in refused
    /\ i > before
    /\ events[i].type \notin {"ERROR", "EOF"}

\* C9: a json_stream_parse_chunk call in which the callback answers false
\* returns false, delivers no further event, and leaves the buffer empty,
\* the depth 0 and the parser outside a string.
CleanCancellation ==
    \A i \in 1..Len(events) :
        RefusedInLastCall(i) =>
            /\ returned = "false"
            /\ Len(events) = i
            /\ parser.buffer = <<>>
            /\ parser.depth = 0
            /\ ~parser.in_string

\* the callback has answered the ARRAY_START of the document [ with false
StartRefused ==
    /\ RefusedInLastCall(1)
    /\ doc = <<CH_lbracket>>
    /\ events[1].type = "ARRAY_START"

\* C10: when the input of json_stream_parse_file ends inside a container
\* that is still open, or inside a string, no EOF event is delivered and
\* the call does not return true.
EofOnlyOnCleanEnd ==
    (/\ pc = "eof"
     /\ ~BracketsOf(doc).fault
     /\ (BracketsOf(doc).open # <<>> \/ BracketsOf(doc).in_string)) =>
        /\ Count({"EOF"}) = 0
        /\ returned # "true"

\* json_stream_parse_file has read the file [1,
OpenArrayFile ==
    /\ pc = "eof"
    /\ doc = <<CH_lbracket, CH_one, CH_comma>>
    /\ before = 0

----------------------------------------------------------------------------
(* Stream driver at its depth bound *)

MaxDeepPieces == 2

\* what follows the opening brackets of a deep document
DeepPieces ==
    { <<CH_lbracket>>, <<CH_lbrace>>, <<CH_rbracket>>, <<CH_one>>,
      <<CH_quote>> }

\* MAX_STREAM_DEPTH opening brackets, then a few more bytes
DeepDocs ==
    {Repeat(CH_lbracket, MAX_STREAM_DEPTH) \o d :
        d \in Concats(DeepPieces, MaxDeepPieces)}

InitDepth ==
    /\ doc \in DeepDocs
    /\ pc = "stream"
    /\ parser = json_stream_parser_create
    /\ consumed = 0
    /\ events = <<>>
    /\ before = 0
    /\ returned = "none"
    /\ refused = {}
    /\ failures = 0
    /\ g_json_last_error = "NONE"
    /\ mem = NoMemory
    /\ held = NoPointers
    /\ base = 0
    /\ result = NULL
    /\ text = NULL
    /\ result2 = NULL
    /\ pretty = FALSE

\* the lengths of the chunks fed
ChunkLengths == {1, 2, 3}

\* json_stream_parse_chunk(parser, chunk, length) for the next length bytes
\* of doc
DeepChunk ==
    /\ pc = "stream"
    /\ failures < MaxFailedCalls
    /\ \E n \in ChunkLengths :
           /\ consumed + n <= Len(doc)
           /\ ChunkRuns(SubSeq(doc, consumed + 1, consumed + n),
                        ChunkCall(SubSeq(doc, consumed + 1, consumed + n), 0))
           /\ consumed' = consumed + n
    /\ UNCHANGED <<mem, held, doc, pc, base, result, text, result2, pretty>>

NextDepth == DeepChunk

SpecDepth == InitDepth /\ [][NextDepth]_vars

\* With a callback that always answers true and no ERROR event delivered, a
\* call of the model fails only at line 160: a call has failed on the depth
\* bound.
DepthExceeded ==
    /\ refused = {}
    /\ Count({"ERROR"}) = 0
    /\ failures >= 1

\* C11: the depth counter never exceeds MAX_STREAM_DEPTH, and once a call
\* has failed on the depth bound the last call made on the parser has
\* returned false, with the depth still at the bound.
StreamDepthBound ==
    /\ parser.depth <= MAX_STREAM_DEPTH
    /\ DepthExceeded =>
           /\ returned = "false"
           /\ parser.depth = MAX_STREAM_DEPTH

\* after the call that failed on one bracket too many, a call was made with
\* the byte ]
ClosedAfterOverflow ==
    /\ DepthExceeded
    /\ doc = Repeat(CH_lbracket, MAX_STREAM_DEPTH + 1) \o <<CH_rbracket>>
    /\ consumed = Len(doc)
    /\ before = 1

----------------------------------------------------------------------------
(* Properties of the parser's memory *)

\* C14: when json_parse_with_error returns no value, every block the parse
\* allocated (value nodes, object keys, tokens' strings) has been freed.
NoLeakOnFailure ==
    (pc = "parsed" /\ IsNull(result.value)) => result.heap = 0

\* the document [1""] has been parsed: a string token stands where , or ]
\* was expected
StringAfterElement ==
    /\ pc = "parsed"
    /\ doc = <<CH_lbracket, CH_one, CH_quote, CH_quote, CH_rbracket>>
    /\ IsNull(result.value)

----------------------------------------------------------------------------
(* Parser at its nesting bound *)

\* The depth compared with at lines 542 and 595.  The program has
\* MAX_NESTING_DEPTH there; the comparison is the same for every value, and
\* the bound is studied at a value whose documents can be enumerated.
NestingLimit == 3

\* a container around a value: an array, an array after a first element, an
\* object member
Openers ==
    { [open |-> <<CH_lbracket>>, close |-> <<CH_rbracket>>],
      [open |-> <<CH_lbracket, CH_one, CH_comma>>, close |-> <<CH_rbracket>>],
      [open |-> <<CH_lbrace, CH_quote, CH_a, CH_quote, CH_colon>>,
       close |-> <<CH_rbrace>>] }

\* the documents that nest a scalar in exactly d containers
RECURSIVE NestedDocs(_)
NestedDocs(d) ==
    IF d = 0 THEN { <<CH_one>>, <<CH_quote, CH_a, CH_quote>> }
    ELSE {o.open \o x \o o.close : o \in Openers, x \in NestedDocs(d - 1)}

NestingDocs == UNION {NestedDocs(d) : d \in 1..(NestingLimit + 1)}

InitNesting ==
    /\ doc \in NestingDocs
    /\ base = 0
    /\ pc = "start"
    /\ result = NULL
    /\ text = NULL
    /\ result2 = NULL
    /\ pretty = FALSE
    /\ parser = NoParser
    /\ consumed = 0
    /\ events = <<>>
    /\ before = 0
    /\ returned = "none"
    /\ refused = {}
    /\ failures = 0
    /\ g_json_last_error = "NONE"
    /\ mem = NoMemory
    /\ held = NoPointers

\* result = json_parse_with_error(doc, &error) under the limit
ParseNested ==
    /\ pc = "start"
    /\ result' = ParseWithin(doc, base, NestingLimit)
    /\ g_json_last_error' = result'.error
    /\ pc' = "parsed"
    /\ UNCHANGED <<mem, held, doc, text, result2, pretty, base, parser, consumed,
                   events, before, returned, refused, failures>>

NextNesting == ParseNested

SpecNesting == InitNesting /\ [][NextNesting]_vars

\* how deep the brackets of s nest, outside string literals: the walk is at
\* s[i] with depth containers open, and deepest is the most it has seen open
RECURSIVE NestingFrom(_, _, _, _, _)
NestingFrom(s, i, depth, deepest, in_string) ==
    IF i > Len(s) THEN deepest
    ELSE IF in_string
    THEN NestingFrom(s, i + 1, depth, deepest, s[i] # CH_quote)
    ELSE IF s[i] = CH_quote THEN NestingFrom(s, i + 1, depth, deepest, TRUE)
    ELSE IF s[i] \in {CH_lbracket, CH_lbrace}
    THEN NestingFrom(s, i + 1, depth + 1,
                     IF depth + 1 > deepest THEN depth + 1 ELSE deepest,
                     FALSE)
    ELSE IF s[i] \in {CH_rbracket, CH_rbrace}
    THEN NestingFrom(s, i + 1, depth - 1, deepest, FALSE)
    ELSE NestingFrom(s, i + 1, depth, deepest, FALSE)

Nesting(s) == NestingFrom(s, 1, 0, 0, FALSE)

\* C12: a document nested deeper than the limit gives no value, the code
\* STACK_OVERFLOW and nothing left allocated; a document nested no deeper
\* than the limit parses.
NestingBound ==
    pc = "parsed" =>
        IF Nesting(doc) > NestingLimit
        THEN /\ IsNull(result.value)
             /\ result.error = "STACK_OVERFLOW"
             /\ result.heap = 0
             /\ result.depth = 0
        ELSE /\ ~IsNull(result.value)
             /\ result.error = "NONE"

\* one container too many, inside an object member that follows an array
\* element: the parse has built an array, a number and an object when it
\* gives up
NestingWitness ==
    /\ pc = "parsed"
    /\ Nesting(doc) = NestingLimit + 1
    /\ doc[1] = CH_lbracket
    /\ doc[2] = CH_one
    /\ doc[4] = CH_lbrace
    /\ result.error = "STACK_OVERFLOW"

----------------------------------------------------------------------------
(* Object literals with repeated keys *)

MaxMembers == 3

\* a member of an object literal: its key, and its value as written
MemberKeys == { <<CH_a>>, <<CH_b>> }

MemberValues == { <<CH_one>>, <<CH_quote, CH_b, CH_quote>>,
                  <<CH_lbracket, CH_one, CH_rbracket>> }

Members == [key : MemberKeys, value : MemberValues]

\* every sequence of 1 to n members
RECURSIVE MemberSeqs(_)
MemberSeqs(n) ==
    IF n = 0 THEN {<<>>}
    ELSE {Append(ms, m) : ms \in MemberSeqs(n - 1), m \in Members}

\* "key":value,"key":value ... from member i on
RECURSIVE MembersText(_, _)
MembersText(ms, i) ==
    IF i > Len(ms) THEN <<>>
    ELSE <<CH_quote>> \o ms[i].key \o <<CH_quote, CH_colon>> \o ms[i].value
         \o (IF i < Len(ms) THEN <<CH_comma>> ELSE <<>>)
         \o MembersText(ms, i + 1)

ObjectLiteral(ms) == <<CH_lbrace>> \o MembersText(ms, 1) \o <<CH_rbrace>>

MemberLists == UNION {MemberSeqs(n) : n \in 1..MaxMembers}

InitKeys ==
    /\ doc \in {ObjectLiteral(ms) : ms \in MemberLists}
    /\ base = 0
    /\ pc = "start"
    /\ result = NULL
    /\ text = NULL
    /\ result2 = NULL
    /\ pretty = FALSE
    /\ parser = NoParser
    /\ consumed = 0
    /\ events = <<>>
    /\ before = 0
    /\ returned = "none"
    /\ refused = {}
    /\ failures = 0
    /\ g_json_last_error = "NONE"
    /\ mem = NoMemory
    /\ held = NoPointers

SpecKeys == InitKeys /\ [][NextParse]_vars

\* where key is written first and last in ms (0 when it is not written)
FirstWritten(ms, key) ==
    IF \E i \in 1..Len(ms) : ms[i].key = key
    THEN CHOOSE i \in 1..Len(ms) :
             ms[i].key = key /\ \A j \in 1..(i - 1) : ms[j].key # key
    ELSE 0

LastWritten(ms, key) ==
    IF \E i \in 1..Len(ms) : ms[i].key = key
    THEN CHOOSE i \in 1..Len(ms) :
             ms[i].key = key /\ \A j \in (i + 1)..Len(ms) : ms[j].key # key
    ELSE 0

\* the object holds each key written in ms once, in the order the keys are
\* first written, each bound to the value written last for it
LastWriteWins(object, ms) ==
    /\ object.type = "JSON_OBJECT"
    /\ \A key \in MemberKeys :
           Cardinality({i \in 1..Len(object.pairs) :
                            object.pairs[i].key = key})
               = IF FirstWritten(ms, key) = 0 THEN 0 ELSE 1
    /\ \A i \in 1..Len(object.pairs) : \A j \in (i + 1)..Len(object.pairs) :
           FirstWritten(ms, object.pairs[i].key)
               < FirstWritten(ms, object.pairs[j].key)
    /\ \A i \in 1..Len(object.pairs) :
           json_equals(object.pairs[i].value,
                       json_parse(ms[LastWritten(ms, object.pairs[i].key)].value))

\* C13: an object literal parses without error, whatever keys it repeats,
\* to an object that holds each key once, at the place of its first
\* occurrence and with the value of its last; the values replaced have been
\* freed, so the blocks still allocated are those of the object returned.
DuplicateKeys ==
    pc = "parsed" =>
        /\ ~IsNull(result.value)
        /\ result.error = "NONE"
        /\ \A ms \in MemberLists :
               doc = ObjectLiteral(ms) => LastWriteWins(result.value, ms)
        /\ result.heap = Blocks(result.value)

\* {"a":[1],"b":1,"a":"b"} has been parsed: the array under a is replaced
\* by a string, with another key in between
DuplicateKeysWitness ==
    /\ pc = "parsed"
    /\ doc = ObjectLiteral(<<[key |-> <<CH_a>>,
                              value |-> <<CH_lbracket, CH_one, CH_rbracket>>],
                             [key |-> <<CH_b>>, value |-> <<CH_one>>],
                             [key |-> <<CH_a>>,
                              value |-> <<CH_quote, CH_b, CH_quote>>]>>)
    /\ Len(result.value.pairs) = 2
    /\ result.value.pairs[1].value.type = "JSON_STRING"

----------------------------------------------------------------------------
(* Values in memory: json_parser.c, json_utils.c, json_advanced.c *)

\* A pointer is the address of a block, 0 is the null pointer.  A block is
\* free, or holds the bytes of a string or of a key ("chars"), or holds a
\* JsonValue together with the JsonArray or JsonObject it owns ("value").
\* The memory also keeps whether the program has run into undefined
\* behaviour (a block freed twice, a freed block read) and the code of the
\* last-error record.  Allocation failure is left out: the operations below
\* are used only while enough blocks are free.

MaxBlocks == 36

Addresses == 1..MaxBlocks

FreeBlock == [kind |-> "free"]

EmptyMemory ==
    [block |-> [a \in Addresses |-> FreeBlock], undefined |-> FALSE,
     error |-> "NONE"]

IsFree(m, p) == m.block[p].kind = "free"

FreeAddresses(m) == {a \in Addresses : IsFree(m, a)}

\* malloc returns the lowest free address
malloc(m) ==
    CHOOSE a \in FreeAddresses(m) : \A b \in FreeAddresses(m) : a <= b

\* at least n blocks are free
FreeRoom(m, n) == Cardinality(FreeAddresses(m)) >= n

Put(m, p, block) == [m EXCEPT !.block[p] = block]

\* free(p): freeing a block a second time is undefined
free(m, p) ==
    IF p = 0 THEN m
    ELSE IF IsFree(m, p) THEN [m EXCEPT !.undefined = TRUE]
    ELSE Put(m, p, FreeBlock)

\* json_set_error on the last-error record of the memory
SetError(m, code) == [m EXCEPT !.error = code]

\* p points to a JsonValue that has not been freed
IsValue(m, p) == p # 0 /\ m.block[p].kind = "value"

TypeAt(m, p) == m.block[p].type

\* a constructor's result: the memory with the new JsonValue, and its address
Created(m, block) == [mem |-> Put(m, malloc(m), block), ptr |-> malloc(m)]

mem_create_null(m) == Created(m, [kind |-> "value", type |-> "JSON_NULL"])

mem_create_bool(m, val) ==
    Created(m, [kind |-> "value", type |-> "JSON_BOOL", bool_value |-> val])

mem_create_number(m, val) ==
    Created(m, [kind |-> "value", type |-> "JSON_NUMBER",
                number_value |-> val])

\* lines 780-794: the JsonValue is allocated, then the bytes, and val is
\* copied up to its first NUL
StringCopied(cr, val) ==
    [mem |-> Put(Put(cr.mem, malloc(cr.mem),
                     [kind |-> "chars", chars |-> CStr(val)]),
                 cr.ptr,
                 [cr.mem.block[cr.ptr] EXCEPT
                     !.string_value = malloc(cr.mem)]),
     ptr |-> cr.ptr]

mem_create_string(m, val) ==
    StringCopied(Created(m, [kind |-> "value", type |-> "JSON_STRING",
                             string_value |-> 0]), val)

mem_create_array(m) ==
    Created(m, [kind |-> "value", type |-> "JSON_ARRAY", values |-> <<>>,
                capacity |-> 0])

mem_create_object(m) ==
    Created(m, [kind |-> "value", type |-> "JSON_OBJECT", pairs |-> <<>>,
                capacity |-> 0])

\* the bytes of the string or key at p; reading a freed block gives bytes
\* that are no string of the model
CharsAt(m, p) ==
    IF p # 0 /\ m.block[p].kind = "chars" THEN m.block[p].chars
    ELSE <<-1>>

\* json_free (lines 969-999); a value that was freed before is freed twice
RECURSIVE json_free(_, _), FreeValues(_, _, _), FreePairs(_, _, _)
json_free(m, value) ==
    IF value = 0 \/ m.undefined THEN m
    ELSE IF ~IsValue(m, value) THEN [m EXCEPT !.undefined = TRUE]
    ELSE IF TypeAt(m, value) = "JSON_STRING"
    THEN free(free(m, m.block[value].string_value), value)
    ELSE IF TypeAt(m, value) = "JSON_ARRAY"
    THEN free(FreeValues(m, m.block[value].values, 1), value)
    ELSE IF TypeAt(m, value) = "JSON_OBJECT"
    THEN free(FreePairs(m, m.block[value].pairs, 1), value)
    ELSE free(m, value)

FreeValues(m, values, i) ==
    IF i > Len(values) THEN m
    ELSE FreeValues(json_free(m, values[i]), values, i + 1)

FreePairs(m, pairs, i) ==
    IF i > Len(pairs) THEN m
    ELSE FreePairs(json_free(free(m, pairs[i].key), pairs[i].value),
                   pairs, i + 1)

\* json_array_append on a JsonValue in memory (lines 831-856)
mem_array_append(m, array, value) ==
    IF array = 0 \/ value = 0
    THEN [mem |-> SetError(m, "NULL_POINTER"), ok |-> FALSE]
    ELSE IF TypeAt(m, array) # "JSON_ARRAY"
    THEN [mem |-> SetError(m, "INVALID_TYPE"), ok |-> FALSE]
    ELSE [mem |-> [m EXCEPT
                      !.block[array].capacity =
                          Grow(Len(m.block[array].values), @),
                      !.block[array].values = Append(@, value)],
          ok |-> TRUE]

\* index of the first pair of the object whose key strcmp-equals key, 0 if
\* there is none (lines 871-872, 914-915, 1041-1042)
RECURSIVE PairIndexFrom(_, _, _, _)
PairIndexFrom(m, pairs, key, i) ==
    IF i > Len(pairs) THEN 0
    ELSE IF CharsAt(m, pairs[i].key) = key THEN i
    ELSE PairIndexFrom(m, pairs, key, i + 1)

PairIndex(m, object, key) ==
    PairIndexFrom(m, m.block[object].pairs, CStr(key), 1)

\* lines 873-875: the old value of pair i is freed and value put in its place
Replaced(m, object, i, value) ==
    [json_free(m, m.block[object].pairs[i].value) EXCEPT
        !.block[object].pairs[i].value = value]

\* lines 879-899: the pair array grows if it is full, the key is copied
\* into a new block and the pair is added at the end
Added(m, object, key, value) ==
    [Put(m, malloc(m), [kind |-> "chars", chars |-> CStr(key)]) EXCEPT
        !.block[object].capacity = Grow(Len(m.block[object].pairs), @),
        !.block[object].pairs =
            Append(@, [key |-> malloc(m), value |-> value])]

\* json_object_set on a JsonValue in memory (lines 858-900)
mem_object_set(m, object, key, value) ==
    IF object = 0 \/ value = 0
    THEN [mem |-> SetError(m, "NULL_POINTER"), ok |-> FALSE]
    ELSE IF TypeAt(m, object) # "JSON_OBJECT"
    THEN [mem |-> SetError(m, "INVALID_TYPE"), ok |-> FALSE]
    ELSE IF PairIndex(m, object, key) # 0
    THEN [mem |-> Replaced(m, object, PairIndex(m, object, key), value),
          ok |-> TRUE]
    ELSE [mem |-> Added(m, object, key, value), ok |-> TRUE]

\* json_object_get on a JsonValue in memory (lines 902-922)
mem_object_get(m, object, key) ==
    IF object = 0 THEN [mem |-> SetError(m, "NULL_POINTER"), ptr |-> 0]
    ELSE IF TypeAt(m, object) # "JSON_OBJECT"
    THEN [mem |-> SetError(m, "INVALID_TYPE"), ptr |-> 0]
    ELSE IF PairIndex(m, object, key) # 0
    THEN [mem |-> m,
          ptr |-> m.block[object].pairs[PairIndex(m, object, key)].value]
    ELSE [mem |-> SetError(m, "KEY_NOT_FOUND"), ptr |-> 0]

\* s without its element i
Without(s, i) == SubSeq(s, 1, i - 1) \o SubSeq(s, i + 1, Len(s))

\* json_array_remove (lines 1001-1026)
json_array_remove(m, array, index) ==
    IF array = 0 THEN [mem |-> SetError(m, "NULL_POINTER"), ok |-> FALSE]
    ELSE IF TypeAt(m, array) # "JSON_ARRAY"
    THEN [mem |-> SetError(m, "INVALID_TYPE"), ok |-> FALSE]
    ELSE IF index >= Len(m.block[array].values)
    THEN [mem |-> SetError(m, "INDEX_OUT_OF_BOUNDS"), ok |-> FALSE]
    ELSE [mem |-> [json_free(m, m.block[array].values[index + 1]) EXCEPT
                      !.block[array].values = Without(@, index + 1)],
          ok |-> TRUE]

\* s with its last element moved into the place of element i
SwappedOut(s, i) == SubSeq([s EXCEPT ![i] = s[Len(s)]], 1, Len(s) - 1)

\* the pair is removed by moving the last pair into its place
PairSwappedOut(m, object, i) ==
    [json_free(free(m, m.block[object].pairs[i].key),
               m.block[object].pairs[i].value) EXCEPT
        !.block[object].pairs = SwappedOut(@, i)]

\* lines 1043-1050: key and value of pair i are freed, the later pairs move
\* down
PairRemoved(m, object, i) ==
    [json_free(free(m, m.block[object].pairs[i].key),
               m.block[object].pairs[i].value) EXCEPT
        !.block[object].pairs = Without(@, i)]

\* json_object_remove (lines 1028-1056)
json_object_remove(m, object, key) ==
    IF object = 0 THEN [mem |-> SetError(m, "NULL_POINTER"), ok |-> FALSE]
    ELSE IF TypeAt(m, object) # "JSON_OBJECT"
    THEN [mem |-> SetError(m, "INVALID_TYPE"), ok |-> FALSE]
    ELSE IF PairIndex(m, object, key) # 0
    THEN [mem |-> PairRemoved(m, object, PairIndex(m, object, key)),
          ok |-> TRUE]
    ELSE [mem |-> SetError(m, "KEY_NOT_FOUND"), ok |-> FALSE]

\* find_copy (json_utils.c lines 38-45): ctx is the sequence of the pairs
\* seen[i], copies[i]
RECURSIVE FindFrom(_, _, _)
FindFrom(ctx, original, i) ==
    IF i > Len(ctx) THEN 0
    ELSE IF ctx[i].seen = original THEN ctx[i].copy
    ELSE FindFrom(ctx, original, i + 1)

find_copy(ctx, original) == FindFrom(ctx, original, 1)

\* register_copy (lines 47-67)
register_copy(ctx, original, copy) ==
    IF original = 0 \/ copy = 0 THEN ctx
    ELSE Append(ctx, [seen |-> original, copy |-> copy])

\* the pointer to the original is returned in place of the copy
ScalarShared(cr, ctx, value) ==
    [mem |-> cr.mem, ctx |-> register_copy(ctx, value, cr.ptr),
     ptr |-> value]

\* lines 117-119: the copy of a scalar is registered once it is made
ScalarCopied(cr, ctx, value) ==
    [mem |-> cr.mem, ctx |-> register_copy(ctx, value, cr.ptr),
     ptr |-> cr.ptr]

\* json_deep_copy_internal (lines 69-122): the memory and the context after
\* the call, and the pointer returned
RECURSIVE json_deep_copy_internal(_, _, _), CopyValues(_, _, _, _, _),
          CopyPairs(_, _, _, _, _), ItemCopied(_, _, _, _),
          PairCopied(_, _, _, _)
json_deep_copy_internal(m, ctx, value) ==
    IF value = 0 THEN [mem |-> m, ctx |-> ctx, ptr |-> 0]
    ELSE IF find_copy(ctx, value) # 0
    THEN [mem |-> m, ctx |-> ctx, ptr |-> find_copy(ctx, value)]
    ELSE IF TypeAt(m, value) = "JSON_NULL"
    THEN ScalarCopied(mem_create_null(m), ctx, value)
    ELSE IF TypeAt(m, value) = "JSON_BOOL"
    THEN ScalarCopied(mem_create_bool(m, m.block[value].bool_value),
                      ctx, value)
    ELSE IF TypeAt(m, value) = "JSON_NUMBER"
    THEN ScalarCopied(mem_create_number(m, m.block[value].number_value),
                      ctx, value)
    ELSE IF TypeAt(m, value) = "JSON_STRING"
    THEN ScalarCopied(
             mem_create_string(m, CharsAt(m, m.block[value].string_value)),
             ctx, value)
    ELSE IF TypeAt(m, value) = "JSON_ARRAY"
    THEN CopyValues(mem_create_array(m).mem,
                    register_copy(ctx, value, mem_create_array(m).ptr),
                    value, 1, mem_create_array(m).ptr)
    ELSE CopyPairs(mem_create_object(m).mem,
                   register_copy(ctx, value, mem_create_object(m).ptr),
                   value, 1, mem_create_object(m).ptr)

\* lines 98-101: the loop over the elements of value, from element i on
CopyValues(m, ctx, value, i, copy) ==
    IF i > Len(m.block[value].values)
    THEN [mem |-> m, ctx |-> ctx, ptr |-> copy]
    ELSE ItemCopied(
             json_deep_copy_internal(m, ctx, m.block[value].values[i]),
             value, i, copy)

ItemCopied(item, value, i, copy) ==
    CopyValues(mem_array_append(item.mem, copy, item.ptr).mem, item.ctx,
               value, i + 1, copy)

\* lines 109-112: the loop over the pairs of value, from pair i on
CopyPairs(m, ctx, value, i, copy) ==
    IF i > Len(m.block[value].pairs)
    THEN [mem |-> m, ctx |-> ctx, ptr |-> copy]
    ELSE PairCopied(
             json_deep_copy_internal(m, ctx, m.block[value].pairs[i].value),
             value, i, copy)

PairCopied(val_copy, value, i, copy) ==
    CopyPairs(mem_object_set(val_copy.mem, copy,
                             CharsAt(val_copy.mem,
                                     val_copy.mem.block[value].pairs[i].key),
                             val_copy.ptr).mem,
              val_copy.ctx, value, i + 1, copy)

\* json_deep_copy (lines 124-144): the context is created empty and freed
\* after the copy
json_deep_copy(m, value) ==
    IF value = 0 THEN [mem |-> SetError(m, "NULL_POINTER"), ptr |-> 0]
    ELSE [mem |-> json_deep_copy_internal(m, <<>>, value).mem,
          ptr |-> json_deep_copy_internal(m, <<>>, value).ptr]

\* lines 197-199: the loop of json_merge over the pairs of obj2, from pair i
RECURSIVE MergePairs(_, _, _, _)

\* the loop when the values of obj2 are set without being copied
MergePairsShared(m, result0, obj2, i) ==
    IF i > Len(m.block[obj2].pairs) THEN m
    ELSE MergePairs(
             mem_object_set(m, result0,
                            CharsAt(m, m.block[obj2].pairs[i].key),
                            m.block[obj2].pairs[i].value).mem,
             result0, obj2, i + 1)

MergePairs(m, result0, obj2, i) ==
    IF i > Len(m.block[obj2].pairs) THEN m
    ELSE MergePairs(
             mem_object_set(
                 json_deep_copy(m, m.block[obj2].pairs[i].value).mem,
                 result0,
                 CharsAt(m, m.block[obj2].pairs[i].key),
                 json_deep_copy(m, m.block[obj2].pairs[i].value).ptr).mem,
             result0, obj2, i + 1)

\* json_merge (lines 183-202)
json_merge(m, obj1, obj2) ==
    IF obj1 = 0 \/ obj2 = 0
    THEN [mem |-> SetError(m, "NULL_POINTER"), ptr |-> 0]
    ELSE IF TypeAt(m, obj1) # "JSON_OBJECT" \/ TypeAt(m, obj2) # "JSON_OBJECT"
    THEN [mem |-> SetError(m, "INVALID_TYPE"), ptr |-> 0]
    ELSE [mem |-> MergePairs(json_deep_copy(m, obj1).mem,
                             json_deep_copy(m, obj1).ptr, obj2, 1),
          ptr |-> json_deep_copy(m, obj1).ptr]

\* json_optimize_memory (json_advanced.c lines 362-384)
RECURSIVE json_optimize_memory(_, _), OptimizeValues(_, _, _),
          OptimizePairs(_, _, _)
Shrunk(m, value, count) ==
    IF m.block[value].capacity > count
    THEN [m EXCEPT !.block[value].capacity = count]
    ELSE m

json_optimize_memory(m, value) ==
    IF value = 0 THEN m
    ELSE IF TypeAt(m, value) = "JSON_ARRAY"
    THEN OptimizeValues(Shrunk(m, value, Len(m.block[value].values)),
                        value, 1)
    ELSE IF TypeAt(m, value) = "JSON_OBJECT"
    THEN OptimizePairs(Shrunk(m, value, Len(m.block[value].pairs)),
                       value, 1)
    ELSE m

OptimizeValues(m, value, i) ==
    IF i > Len(m.block[value].values) THEN m
    ELSE OptimizeValues(json_optimize_memory(m, m.block[value].values[i]),
                        value, i + 1)

OptimizePairs(m, value, i) ==
    IF i > Len(m.block[value].pairs) THEN m
    ELSE OptimizePairs(
             json_optimize_memory(m, m.block[value].pairs[i].value),
             value, i + 1)

\* json_equals on JsonValues in memory (json_utils.c lines 146-181): the
\* memory after the call, whose last-error record json_object_get may have
\* written, and the answer
RECURSIVE mem_equals(_, _, _), EqualValues(_, _, _, _),
          EqualPairs(_, _, _, _), PairEqual(_, _, _, _)
mem_equals(m, val1, val2) ==
    IF val1 = 0 /\ val2 = 0 THEN [mem |-> m, eq |-> TRUE]
    ELSE IF val1 = 0 \/ val2 = 0 THEN [mem |-> m, eq |-> FALSE]
    ELSE IF TypeAt(m, val1) # TypeAt(m, val2) THEN [mem |-> m, eq |-> FALSE]
    ELSE IF TypeAt(m, val1) = "JSON_NULL" THEN [mem |-> m, eq |-> TRUE]
    ELSE IF TypeAt(m, val1) = "JSON_BOOL"
    THEN [mem |-> m,
          eq |-> m.block[val1].bool_value = m.block[val2].bool_value]
    ELSE IF TypeAt(m, val1) = "JSON_NUMBER"
    THEN [mem |-> m,
          eq |-> DoubleEq(m.block[val1].number_value,
                          m.block[val2].number_value)]
    ELSE IF TypeAt(m, val1) = "JSON_STRING"
    THEN [mem |-> m,
          eq |-> CharsAt(m, m.block[val1].string_value)
                     = CharsAt(m, m.block[val2].string_value)]
    ELSE IF TypeAt(m, val1) = "JSON_ARRAY"
    THEN IF Len(m.block[val1].values) # Len(m.block[val2].values)
         THEN [mem |-> m, eq |-> FALSE]
         ELSE EqualValues(m, m.block[val1].values, m.block[val2].values, 1)
    ELSE IF Len(m.block[val1].pairs) # Len(m.block[val2].pairs)
    THEN [mem |-> m, eq |-> FALSE]
    ELSE EqualPairs(m, m.block[val1].pairs, val2, 1)

\* lines 164-166: the loop over the elements, from element i
EqualValues(m, values1, values2, i) ==
    IF i > Len(values1) THEN [mem |-> m, eq |-> TRUE]
    ELSE IF ~mem_equals(m, values1[i], values2[i]).eq
    THEN [mem |-> mem_equals(m, values1[i], values2[i]).mem, eq |-> FALSE]
    ELSE EqualValues(mem_equals(m, values1[i], values2[i]).mem, values1,
                     values2, i + 1)

\* lines 174-177: the loop over the pairs of val1, from pair i
EqualPairs(m, pairs, val2, i) ==
    IF i > Len(pairs) THEN [mem |-> m, eq |-> TRUE]
    ELSE PairEqual(mem_object_get(m, val2, CharsAt(m, pairs[i].key)), pairs,
                   val2, i)

\* line 176: got is what json_object_get(val2, key) answered for pair i
PairEqual(got, pairs, val2, i) ==
    IF got.ptr = 0 THEN [mem |-> got.mem, eq |-> FALSE]
    ELSE IF ~mem_equals(got.mem, pairs[i].value, got.ptr).eq
    THEN [mem |-> mem_equals(got.mem, pairs[i].value, got.ptr).mem,
          eq |-> FALSE]
    ELSE EqualPairs(mem_equals(got.mem, pairs[i].value, got.ptr).mem, pairs,
                    val2, i + 1)

\* the memory after the values of the tree v have been built in it the way
\* the parser builds them, and the address of the root
RECURSIVE Store(_, _), StoreValues(_, _, _, _), StorePairs(_, _, _, _)
Store(m, v) ==
    IF v.type = "JSON_NULL" THEN mem_create_null(m)
    ELSE IF v.type = "JSON_BOOL" THEN mem_create_bool(m, v.bool_value)
    ELSE IF v.type = "JSON_NUMBER" THEN mem_create_number(m, v.number_value)
    ELSE IF v.type = "JSON_STRING" THEN mem_create_string(m, v.string_value)
    ELSE IF v.type = "JSON_ARRAY"
    THEN StoreValues(mem_create_array(m).mem, v.values, 1,
                     mem_create_array(m).ptr)
    ELSE StorePairs(mem_create_object(m).mem, v.pairs, 1,
                    mem_create_object(m).ptr)

StoreValues(m, values, i, array) ==
    IF i > Len(values) THEN [mem |-> m, ptr |-> array]
    ELSE StoreValues(mem_array_append(Store(m, values[i]).mem, array,
                                      Store(m, values[i]).ptr).mem,
                     values, i + 1, array)

StorePairs(m, pairs, i, object) ==
    IF i > Len(pairs) THEN [mem |-> m, ptr |-> object]
    ELSE StorePairs(mem_object_set(Store(m, pairs[i].value).mem, object,
                                   pairs[i].key,
                                   Store(m, pairs[i].value).ptr).mem,
                    pairs, i + 1, object)

\* the tree that is read from memory at p; a freed block reads as a value
\* of no JSON type
RECURSIVE View(_, _)
View(m, p) ==
    IF p = 0 THEN NULL
    ELSE IF ~IsValue(m, p) THEN [type |-> "FREED"]
    ELSE IF TypeAt(m, p) = "JSON_NULL" THEN json_create_null
    ELSE IF TypeAt(m, p) = "JSON_BOOL"
    THEN json_create_bool(m.block[p].bool_value)
    ELSE IF TypeAt(m, p) = "JSON_NUMBER"
    THEN json_create_number(m.block[p].number_value)
    ELSE IF TypeAt(m, p) = "JSON_STRING"
    THEN [type |-> "JSON_STRING",
          string_value |-> CharsAt(m, m.block[p].string_value)]
    ELSE IF TypeAt(m, p) = "JSON_ARRAY"
    THEN [type |-> "JSON_ARRAY",
          values |-> [i \in 1..Len(m.block[p].values) |->
                         View(m, m.block[p].values[i])],
          capacity |-> m.block[p].capacity]
    ELSE [type |-> "JSON_OBJECT",
          pairs |-> [i \in 1..Len(m.block[p].pairs) |->
                        [key |-> CharsAt(m, m.block[p].pairs[i].key),
                         value |-> View(m, m.block[p].pairs[i].value)]],
          capacity |-> m.block[p].capacity]

\* the JsonValues a container points to
Children(m, p) ==
    IF ~IsValue(m, p) THEN {}
    ELSE IF TypeAt(m, p) = "JSON_ARRAY"
    THEN {m.block[p].values[i] : i \in 1..Len(m.block[p].values)}
    ELSE IF TypeAt(m, p) = "JSON_OBJECT"
    THEN {m.block[p].pairs[i].value : i \in 1..Len(m.block[p].pairs)}
    ELSE {}

\* the blocks a JsonValue owns besides itself: the bytes of its string or
\* of its keys
CharsOf(m, p) ==
    IF ~IsValue(m, p) THEN {}
    ELSE IF TypeAt(m, p) = "JSON_STRING" THEN {m.block[p].string_value}
    ELSE IF TypeAt(m, p) = "JSON_OBJECT"
    THEN {m.block[p].pairs[i].key : i \in 1..Len(m.block[p].pairs)}
    ELSE {}

\* the JsonValues that can be reached from the values of the set ps
RECURSIVE Reach(_, _)
Reach(m, ps) ==
    IF UNION {Children(m, p) : p \in ps} \subseteq ps THEN ps
    ELSE Reach(m, ps \cup UNION {Children(m, p) : p \in ps})

\* every block of the graph under p: its values, strings and keys
BlocksUnder(m, p) ==
    Reach(m, {p}) \cup UNION {CharsOf(m, q) : q \in Reach(m, {p})}

\* some container reachable from p is reachable from itself
Cyclic(m, p) ==
    \E q \in Reach(m, {p}) : q \in Reach(m, Children(m, q))

----------------------------------------------------------------------------
(* A program that builds a graph of containers and copies it *)

\* the variables of the parser, the serializer and the stream driver, which
\* the programs on values in memory leave alone
others ==
    <<doc, base, result, text, result2, pretty, parser, consumed, events,
      before, returned, refused, failures>>

NoDocument ==
    /\ doc = <<>>
    /\ base = 0
    /\ result = NULL
    /\ text = NULL
    /\ result2 = NULL
    /\ pretty = FALSE
    /\ parser = NoParser
    /\ consumed = 0
    /\ events = <<>>
    /\ before = 0
    /\ returned = "none"
    /\ refused = {}
    /\ failures = 0

MaxItems == 2

ContainerTypes == {"JSON_ARRAY", "JSON_OBJECT"}

GraphKeys == { <<CH_a>>, <<CH_b>> }

\* the double 1.0
NumberOne == json_parse(<<CH_one>>).number_value

CreateOf(m, type) ==
    IF type = "JSON_ARRAY" THEN mem_create_array(m) ELSE mem_create_object(m)

\* json_array_append(parent, child) or json_object_set(parent, key, child)
Attach(m, parent, key, child) ==
    IF TypeAt(m, parent) = "JSON_ARRAY"
    THEN mem_array_append(m, parent, child)
    ELSE mem_object_set(m, parent, key, child)

\* the program has created two empty containers, a and b
TwoContainers(first, tb) ==
    /\ mem = CreateOf(first.mem, tb).mem
    /\ held = [a |-> first.ptr, b |-> CreateOf(first.mem, tb).ptr,
               copy |-> 0]

InitCycle ==
    /\ \E ta \in ContainerTypes, tb \in ContainerTypes :
           TwoContainers(CreateOf(EmptyMemory, ta), tb)
    /\ pc = "start"
    /\ g_json_last_error = "NONE"
    /\ NoDocument

\* the container can take one more child under the key
TakesChild(m, parent, key) ==
    /\ Cardinality(Children(m, parent)) < MaxItems
    /\ IF TypeAt(m, parent) = "JSON_ARRAY" THEN key = <<CH_a>>
       ELSE PairIndex(m, parent, key) = 0

\* a new number is put in one of the containers
AddScalar ==
    /\ pc = "start"
    /\ FreeRoom(mem, 2)
    /\ \E parent \in {held.a, held.b}, key \in GraphKeys :
           /\ TakesChild(mem, parent, key)
           /\ mem' = Attach(mem_create_number(mem, NumberOne).mem, parent,
                            key, mem_create_number(mem, NumberOne).ptr).mem
    /\ g_json_last_error' = mem'.error
    /\ UNCHANGED <<pc, held, others>>

\* one of the containers is put in one of the containers
Link ==
    /\ pc = "start"
    /\ FreeRoom(mem, 1)
    /\ \E parent \in {held.a, held.b}, child \in {held.a, held.b},
          key \in GraphKeys :
           /\ TakesChild(mem, parent, key)
           /\ child \notin Children(mem, parent)
           /\ mem' = Attach(mem, parent, key, child).mem
    /\ g_json_last_error' = mem'.error
    /\ UNCHANGED <<pc, held, others>>

\* copy = json_deep_copy(a)
CopyGraph ==
    /\ pc = "start"
    /\ FreeRoom(mem, Cardinality(BlocksUnder(mem, held.a)))
    /\ mem' = json_deep_copy(mem, held.a).mem
    /\ held' = [held EXCEPT !.copy = json_deep_copy(mem, held.a).ptr]
    /\ pc' = "copied"
    /\ g_json_last_error' = mem'.error
    /\ UNCHANGED others

NextCycle == AddScalar \/ Link \/ CopyGraph

SpecCycle == InitCycle /\ [][NextCycle]_vars

\* a and b are objects, a holds b under a key and b holds a under a key
MutualObjects ==
    /\ TypeAt(mem, held.a) = "JSON_OBJECT"
    /\ TypeAt(mem, held.b) = "JSON_OBJECT"
    /\ held.b \in Children(mem, held.a)
    /\ held.a \in Children(mem, held.b)

\* C15: json_deep_copy of an object a that holds an object b under a key,
\* where b holds a under a key, returns a value, and no container of the
\* graph returned can be reached from itself.
CopyOfCycleAcyclic ==
    (pc = "copied" /\ MutualObjects) =>
        held.copy # 0 /\ ~Cyclic(mem, held.copy)

\* the copy of two objects that hold each other has been made: it shares no
\* block with them, and the copy of a is reachable from itself
CycleCopied ==
    /\ pc = "copied"
    /\ MutualObjects
    /\ BlocksUnder(mem, held.copy) \cap BlocksUnder(mem, held.a) = {}
    /\ held.copy \in Reach(mem, Children(mem, held.copy))

----------------------------------------------------------------------------
(* A program that copies a parsed value and changes the copy *)

MaxChanges == 2

\* the documents whose values the program copies
CopyDocs ==
    { <<CH_one>>,
      <<CH_quote, CH_a, CH_quote>>,
      <<CH_lbracket, CH_one, CH_comma, CH_quote, CH_a, CH_quote,
        CH_rbracket>>,
      <<CH_lbrace, CH_quote, CH_a, CH_quote, CH_colon, CH_one, CH_rbrace>>,
      <<CH_lbrace, CH_quote, CH_a, CH_quote, CH_colon, CH_lbracket, CH_one,
        CH_rbracket, CH_comma, CH_quote, CH_b, CH_quote, CH_colon,
        CH_quote, CH_b, CH_quote, CH_rbrace>>,
      <<CH_lbracket, CH_lbrace, CH_quote, CH_a, CH_quote, CH_colon,
        CH_quote, CH_b, CH_quote, CH_rbrace, CH_comma, CH_lbracket,
        CH_rbracket, CH_rbracket>> }

\* v = json_parse(d)
Loaded(d, stored) ==
    /\ doc = d
    /\ mem = stored.mem
    /\ held = [v |-> stored.ptr, c |-> 0, was |-> View(stored.mem, stored.ptr),
               changes |-> 0]

InitCopy ==
    /\ \E d \in CopyDocs : Loaded(d, Store(EmptyMemory, json_parse(d)))
    /\ pc = "start"
    /\ g_json_last_error = "NONE"
    /\ base = 0
    /\ result = NULL
    /\ text = NULL
    /\ result2 = NULL
    /\ pretty = FALSE
    /\ parser = NoParser
    /\ consumed = 0
    /\ events = <<>>
    /\ before = 0
    /\ returned = "none"
    /\ refused = {}
    /\ failures = 0

\* c = json_deep_copy(v)
CopyValue ==
    /\ pc = "start"
    /\ FreeRoom(mem, Cardinality(BlocksUnder(mem, held.v)))
    /\ mem' = json_deep_copy(mem, held.v).mem
    /\ held' = [held EXCEPT !.c = json_deep_copy(mem, held.v).ptr]
    /\ pc' = "copied"
    /\ g_json_last_error' = mem'.error
    /\ UNCHANGED others

\* a new scalar: the number 1 or the string "b"
NewScalars(m) == {mem_create_number(m, NumberOne), mem_create_string(m, <<CH_b>>)}

ArraysUnder(m, p) ==
    {q \in Reach(m, {p}) : TypeAt(m, q) = "JSON_ARRAY"}

ObjectsUnder(m, p) ==
    {q \in Reach(m, {p}) : TypeAt(m, q) = "JSON_OBJECT"}

Changed(m) ==
    /\ mem' = m
    /\ held' = [held EXCEPT !.changes = @ + 1]
    /\ g_json_last_error' = m.error
    /\ UNCHANGED <<pc, others>>

\* json_array_append(array, scalar) on an array of the copy
AppendToCopy ==
    /\ pc = "copied"
    /\ held.changes < MaxChanges
    /\ FreeRoom(mem, 3)
    /\ \E array \in ArraysUnder(mem, held.c), scalar \in NewScalars(mem) :
           Changed(mem_array_append(scalar.mem, array, scalar.ptr).mem)

\* json_array_remove(array, index) on an array of the copy
RemoveFromCopy ==
    /\ pc = "copied"
    /\ held.changes < MaxChanges
    /\ \E array \in ArraysUnder(mem, held.c), index \in 0..MaxItems :
           Changed(json_array_remove(mem, array, index).mem)

\* json_object_set(object, key, scalar) on an object of the copy
SetInCopy ==
    /\ pc = "copied"
    /\ held.changes < MaxChanges
    /\ FreeRoom(mem, 3)
    /\ \E object \in ObjectsUnder(mem, held.c), key \in GraphKeys,
          scalar \in NewScalars(mem) :
           Changed(mem_object_set(scalar.mem, object, key, scalar.ptr).mem)

\* json_object_remove(object, key) on an object of the copy
RemoveKeyFromCopy ==
    /\ pc = "copied"
    /\ held.changes < MaxChanges
    /\ \E object \in ObjectsUnder(mem, held.c), key \in GraphKeys :
           Changed(json_object_remove(mem, object, key).mem)

\* json_free(c)
FreeCopy ==
    /\ pc = "copied"
    /\ mem' = json_free(mem, held.c)
    /\ held' = [held EXCEPT !.c = 0]
    /\ pc' = "freed"
    /\ g_json_last_error' = mem'.error
    /\ UNCHANGED others

NextCopy ==
    \/ CopyValue
    \/ AppendToCopy
    \/ RemoveFromCopy
    \/ SetInCopy
    \/ RemoveKeyFromCopy
    \/ FreeCopy

SpecCopy == InitCopy /\ [][NextCopy]_vars

\* C16: once c = json_deep_copy(v) is made of a parsed value v, c and v
\* have no block in common (no value, no key, no string), and whatever is
\* appended to, set in or removed from the containers of c, and when c is
\* freed, v reads as it did before the copy, is json_equals-equal to it, and
\* no block has been freed twice or read after it was freed.
CopyIndependent ==
    pc \in {"copied", "freed"} =>
        /\ pc = "copied" =>
               BlocksUnder(mem, held.c) \cap BlocksUnder(mem, held.v) = {}
        /\ View(mem, held.v) = held.was
        /\ json_equals(View(mem, held.v), held.was)
        /\ ~mem.undefined

\* the copy of {"a":[1],"b":"b"} has been changed twice and then freed
ChangedCopyFreed ==
    /\ pc = "freed"
    /\ held.changes = MaxChanges
    /\ Len(doc) > 10
    /\ doc[1] = CH_lbrace

----------------------------------------------------------------------------
(* A program that compares three parsed values and a copy *)

\* the documents whose values are compared: scalars, the two zeros, arrays
\* and objects that differ in order, in length and in depth
EqualsDocs ==
    { <<CH_one>>,
      <<CH_zero>>,
      <<CH_minus, CH_zero>>,
      <<CH_quote, CH_a, CH_quote>>,
      <<CH_n, CH_u, CH_l, CH_l>>,
      <<CH_lbracket, CH_one, CH_rbracket>>,
      <<CH_lbracket, CH_one, CH_comma, CH_quote, CH_a, CH_quote,
        CH_rbracket>>,
      <<CH_lbracket, CH_quote, CH_a, CH_quote, CH_comma, CH_one,
        CH_rbracket>>,
      <<CH_lbrace, CH_rbrace>>,
      <<CH_lbrace, CH_quote, CH_a, CH_quote, CH_colon, CH_one, CH_rbrace>>,
      <<CH_lbrace, CH_quote, CH_a, CH_quote, CH_colon, CH_one, CH_comma,
        CH_quote, CH_b, CH_quote, CH_colon, CH_quote, CH_a, CH_quote,
        CH_rbrace>>,
      <<CH_lbrace, CH_quote, CH_b, CH_quote, CH_colon, CH_quote, CH_a,
        CH_quote, CH_comma, CH_quote, CH_a, CH_quote, CH_colon, CH_one,
        CH_rbrace>>,
      <<CH_lbracket, CH_lbrace, CH_quote, CH_a, CH_quote, CH_colon, CH_one,
        CH_comma, CH_quote, CH_b, CH_quote, CH_colon, CH_quote, CH_a,
        CH_quote, CH_rbrace, CH_rbracket>>,
      <<CH_lbracket, CH_lbrace, CH_quote, CH_b, CH_quote, CH_colon,
        CH_quote, CH_a, CH_quote, CH_comma, CH_quote, CH_a, CH_quote,
        CH_colon, CH_one, CH_rbrace, CH_rbracket>> }

\* x, y and z have been parsed
ThreeLoaded(x, y, z) ==
    /\ mem = z.mem
    /\ held = [x |-> x.ptr, y |-> y.ptr, z |-> z.ptr, copy |-> 0,
               eq |-> <<>>]

TwoLoaded(x, y, dz) == ThreeLoaded(x, y, Store(y.mem, json_parse(dz)))

OneLoaded(x, dy, dz) == TwoLoaded(x, Store(x.mem, json_parse(dy)), dz)

InitEquals ==
    /\ \E dx \in EqualsDocs, dy \in EqualsDocs, dz \in EqualsDocs :
           OneLoaded(Store(EmptyMemory, json_parse(dx)), dy, dz)
    /\ pc = "start"
    /\ g_json_last_error = "NONE"
    /\ NoDocument

\* copy = json_deep_copy(x)
CopyOperand ==
    /\ pc = "start"
    /\ mem' = json_deep_copy(mem, held.x).mem
    /\ held' = [held EXCEPT !.copy = json_deep_copy(mem, held.x).ptr]
    /\ pc' = "copied"
    /\ g_json_last_error' = mem'.error
    /\ UNCHANGED others

\* the pointers the program compares: x, y, z and the copy of x (null until
\* it is made)
Operands == {held.x, held.y, held.z, held.copy}

\* the memory after json_equals has been called on every two of the
\* pointers ps: KEY_NOT_FOUND is the one code a call records
AllCompared(m, ps) ==
    IF \E p \in ps, q \in ps : mem_equals(m, p, q).mem.error # m.error
    THEN SetError(m, "KEY_NOT_FOUND")
    ELSE m

\* json_equals(p, q) is called for every two operands
Compare ==
    /\ pc \in {"start", "copied"}
    /\ held' = [held EXCEPT !.eq =
                   [p \in Operands, q \in Operands |->
                       json_equals(View(mem, p), View(mem, q))]]
    /\ mem' = AllCompared(mem, Operands)
    /\ g_json_last_error' = mem'.error
    /\ pc' = "compared"
    /\ UNCHANGED others

NextEquals == CopyOperand \/ Compare

SpecEquals == InitEquals /\ [][NextEquals]_vars

\* the key/value pairs of the object at p, as a set
PairSet(m, p) ==
    {<<View(m, p).pairs[i].key, View(m, p).pairs[i].value>> :
         i \in 1..Len(View(m, p).pairs)}

\* p and q are objects with the same pairs in a different order
Reordered(m, p, q) ==
    /\ IsValue(m, p) /\ TypeAt(m, p) = "JSON_OBJECT"
    /\ IsValue(m, q) /\ TypeAt(m, q) = "JSON_OBJECT"
    /\ PairSet(m, p) = PairSet(m, q)
    /\ View(m, p).pairs # View(m, q).pairs

\* C17: the answers of json_equals on parsed values (objects with unique
\* keys) form an equivalence relation: every value equals itself, the
\* answer does not depend on the order of the two operands, two values
\* equal to a third are equal; a value equals its deep copy; and two
\* objects with the same pairs in different orders are equal.
EqualsEquivalence ==
    pc = "compared" =>
        /\ \A p \in Operands : held.eq[p, p]
        /\ \A p \in Operands, q \in Operands : held.eq[p, q] = held.eq[q, p]
        /\ \A p \in Operands, q \in Operands, r \in Operands :
               (held.eq[p, q] /\ held.eq[q, r]) => held.eq[p, r]
        /\ held.copy # 0 => held.eq[held.x, held.copy]
        /\ \A p \in Operands, q \in Operands :
               Reordered(mem, p, q) => held.eq[p, q]

\* x and y are objects with the same pairs in a different order, z is
\* neither, and the copy of x has been compared with them
ReorderedCompared ==
    /\ pc = "compared"
    /\ held.copy # 0
    /\ Reordered(mem, held.x, held.y)
    /\ held.eq[held.copy, held.y]
    /\ ~held.eq[held.y, held.z]
    /\ TypeAt(mem, held.z) = "JSON_OBJECT"

----------------------------------------------------------------------------
(* A program that merges two parsed values *)

\* the documents whose values are merged: objects over the keys a, b and e
\* in several orders, with scalars, an array and objects as values, and
\* three values that are no objects
MergeDocs ==
    { <<CH_lbrace, CH_rbrace>>,
      <<CH_lbrace, CH_quote, CH_a, CH_quote, CH_colon, CH_one, CH_rbrace>>,
      <<CH_lbrace, CH_quote, CH_a, CH_quote, CH_colon, CH_one, CH_comma,
        CH_quote, CH_b, CH_quote, CH_colon, CH_quote, CH_a, CH_quote,
        CH_rbrace>>,
      <<CH_lbrace, CH_quote, CH_b, CH_quote, CH_colon, CH_one, CH_comma,
        CH_quote, CH_a, CH_quote, CH_colon, CH_quote, CH_a, CH_quote,
        CH_rbrace>>,
      <<CH_lbrace, CH_quote, CH_b, CH_quote, CH_colon, CH_lbracket, CH_one,
        CH_rbracket, CH_comma, CH_quote, CH_e, CH_quote, CH_colon, CH_one,
        CH_rbrace>>,
      <<CH_lbrace, CH_quote, CH_e, CH_quote, CH_colon, CH_quote, CH_a,
        CH_quote, CH_comma, CH_quote, CH_a, CH_quote, CH_colon, CH_lbrace,
        CH_quote, CH_a, CH_quote, CH_colon, CH_one, CH_rbrace, CH_rbrace>>,
      <<CH_lbrace, CH_quote, CH_a, CH_quote, CH_colon, CH_lbrace, CH_quote,
        CH_b, CH_quote, CH_colon, CH_one, CH_rbrace, CH_rbrace>>,
      <<CH_lbracket, CH_one, CH_rbracket>>,
      <<CH_quote, CH_a, CH_quote>>,
      <<CH_one>> }

\* obj1 and obj2 have been parsed
BothLoaded(obj1, obj2) ==
    /\ mem = obj2.mem
    /\ held = [obj1 |-> obj1.ptr, obj2 |-> obj2.ptr, merged |-> 0,
               was1 |-> View(obj2.mem, obj1.ptr),
               was2 |-> View(obj2.mem, obj2.ptr)]

InitMerge ==
    /\ \E d1 \in MergeDocs, d2 \in MergeDocs :
           BothLoaded(Store(EmptyMemory, json_parse(d1)),
                      Store(Store(EmptyMemory, json_parse(d1)).mem,
                            json_parse(d2)))
    /\ pc = "start"
    /\ g_json_last_error = "NONE"
    /\ NoDocument

\* merged = json_merge(obj1, obj2)
Merge ==
    /\ pc = "start"
    /\ mem' = json_merge(mem, held.obj1, held.obj2).mem
    /\ held' = [held EXCEPT
                   !.merged = json_merge(mem, held.obj1, held.obj2).ptr]
    /\ pc' = "merged"
    /\ g_json_last_error' = mem'.error
    /\ UNCHANGED others

NextMerge == Merge

SpecMerge == InitMerge /\ [][NextMerge]_vars

\* the keys of the object v, in its order
KeysOf(v) == [i \in 1..Len(v.pairs) |-> v.pairs[i].key]

Has(v, key) == \E i \in 1..Len(v.pairs) : v.pairs[i].key = key

\* the keys of ks from position i on that the object v lacks, in their order
RECURSIVE LackedBy(_, _, _)
LackedBy(v, ks, i) ==
    IF i > Len(ks) THEN <<>>
    ELSE IF Has(v, ks[i]) THEN LackedBy(v, ks, i + 1)
    ELSE <<ks[i]>> \o LackedBy(v, ks, i + 1)

\* what json_merge is to return for the objects v1 and v2
RightBiased(merged, v1, v2) ==
    /\ merged.type = "JSON_OBJECT"
    /\ KeysOf(merged) = KeysOf(v1) \o LackedBy(v1, KeysOf(v2), 1)
    /\ \A i \in 1..Len(merged.pairs) :
           json_equals(merged.pairs[i].value,
                       IF Has(v2, merged.pairs[i].key)
                       THEN json_object_get(v2, merged.pairs[i].key)
                       ELSE json_object_get(v1, merged.pairs[i].key))

\* C18: json_merge of two objects returns a new object, sharing no block
\* with them, whose keys are those of the first in its order followed by
\* the keys of the second that the first lacks in the second's order, each
\* key bound to a value equal to the second's if it has the key and to the
\* first's otherwise; both inputs read as before; when an input is not an
\* object no value is returned and the error is INVALID_TYPE.
MergeRightBiased ==
    pc = "merged" =>
        /\ View(mem, held.obj1) = held.was1
        /\ View(mem, held.obj2) = held.was2
        /\ ~mem.undefined
        /\ IF held.was1.type = "JSON_OBJECT" /\ held.was2.type = "JSON_OBJECT"
           THEN /\ held.merged # 0
                /\ RightBiased(View(mem, held.merged), held.was1, held.was2)
                /\ BlocksUnder(mem, held.merged)
                       \cap (BlocksUnder(mem, held.obj1)
                                 \cup BlocksUnder(mem, held.obj2)) = {}
           ELSE held.merged = 0 /\ g_json_last_error = "INVALID_TYPE"

\* {"a":1,"b":"a"} and {"b":[1],"e":1} have been merged into an object of
\* the keys a, b, e whose b is an array
MergedOverlap ==
    /\ pc = "merged"
    /\ held.merged # 0
    /\ KeysOf(held.was1) = << <<CH_a>>, <<CH_b>> >>
    /\ KeysOf(held.was2) = << <<CH_b>>, <<CH_e>> >>
    /\ KeysOf(View(mem, held.merged)) = << <<CH_a>>, <<CH_b>>, <<CH_e>> >>
    /\ View(mem, held.merged).pairs[2].value.type = "JSON_ARRAY"

----------------------------------------------------------------------------
(* A program that sets and removes the keys of one object *)

MaxCalls == 4

ObjectKeys == { <<CH_a>>, <<CH_b>>, <<CH_e>> }

\* s without its elements equal to x
RECURSIVE Except(_, _)
Except(s, x) ==
    IF s = <<>> THEN <<>>
    ELSE IF Head(s) = x THEN Except(Tail(s), x)
    ELSE <<Head(s)>> \o Except(Tail(s), x)

Range(s) == {s[i] : i \in 1..Len(s)}

\* s with x added at the end unless s has it
Joined(s, x) == IF x \in Range(s) THEN s ELSE Append(s, x)

\* object = json_create_object(); the program also keeps, for the
\* properties, the keys in the order in which they were ever first
\* assigned (first), the keys assigned and not removed since, in the order
\* of those assignments (since), its last call, the object as it read
\* before that call and the blocks of the value the call had to free
ObjectCreated(cr) ==
    /\ mem = cr.mem
    /\ held = [object |-> cr.ptr, calls |-> 0, first |-> <<>>,
               since |-> <<>>,
               call |-> [op |-> "none", key |-> <<>>, ok |-> TRUE],
               was |-> View(cr.mem, cr.ptr), dropped |-> {}]

InitObject ==
    /\ ObjectCreated(mem_create_object(EmptyMemory))
    /\ pc = "start"
    /\ g_json_last_error = "NONE"
    /\ NoDocument

\* the blocks under the value that the object holds under key
BlocksUnderKey(m, object, key) ==
    IF PairIndex(m, object, key) = 0 THEN {}
    ELSE BlocksUnder(m, m.block[object].pairs[
                            PairIndex(m, object, key)].value)

SetCalled(key, r) ==
    /\ mem' = r.mem
    /\ held' = [held EXCEPT
                   !.calls = @ + 1,
                   !.first = Joined(@, key),
                   !.since = Joined(@, key),
                   !.call = [op |-> "set", key |-> key, ok |-> r.ok],
                   !.was = View(mem, held.object),
                   !.dropped = BlocksUnderKey(mem, held.object, key)]
    /\ g_json_last_error' = r.mem.error
    /\ UNCHANGED <<pc, others>>

\* json_object_set(object, key, scalar) with a new scalar
SetKey ==
    /\ held.calls < MaxCalls
    /\ FreeRoom(mem, 3)
    /\ \E key \in ObjectKeys, scalar \in NewScalars(mem) :
           SetCalled(key, mem_object_set(scalar.mem, held.object, key,
                                         scalar.ptr))

RemoveCalled(key, r) ==
    /\ mem' = r.mem
    /\ held' = [held EXCEPT
                   !.calls = @ + 1,
                   !.since = Except(@, key),
                   !.call = [op |-> "remove", key |-> key, ok |-> r.ok],
                   !.was = View(mem, held.object),
                   !.dropped = BlocksUnderKey(mem, held.object, key)]
    /\ g_json_last_error' = r.mem.error
    /\ UNCHANGED <<pc, others>>

\* json_object_remove(object, key)
RemoveKey ==
    /\ held.calls < MaxCalls
    /\ \E key \in ObjectKeys :
           RemoveCalled(key, json_object_remove(mem, held.object, key))

NextObject == SetKey \/ RemoveKey

SpecObject == InitObject /\ [][NextObject]_vars

\* the keys of the object are pairwise distinct and follow the order of
\* the sequence order
KeysFollow(v, order) ==
    /\ \A i \in 1..Len(v.pairs) : \A j \in 1..Len(v.pairs) :
           v.pairs[i].key = v.pairs[j].key => i = j
    /\ \A i \in 1..Len(v.pairs) : \A j \in (i + 1)..Len(v.pairs) :
           \E a \in 1..Len(order) : \E b \in (a + 1)..Len(order) :
               order[a] = v.pairs[i].key /\ order[b] = v.pairs[j].key

\* what the last call did: a set of a key the object had kept count, keys
\* and places and freed the old value; a remove of a key the object lacked
\* returned false with KEY_NOT_FOUND and changed nothing
LastCallRight(v) ==
    /\ (held.call.op = "set" /\ Has(held.was, held.call.key)) =>
           /\ held.call.ok
           /\ KeysOf(v) = KeysOf(held.was)
           /\ Len(v.pairs) = Len(held.was.pairs)
           /\ held.dropped # {}
           /\ \A p \in held.dropped : IsFree(mem, p)
    /\ (held.call.op = "remove" /\ ~Has(held.was, held.call.key)) =>
           /\ ~held.call.ok
           /\ g_json_last_error = "KEY_NOT_FOUND"
           /\ v = held.was

----------------------------------------------------------------------------
(* A program that changes the containers of a parsed value and shrinks them *)

MaxStorageCalls == 3

StorageDocs ==
    { <<CH_lbracket, CH_rbracket>>,
      <<CH_lbrace, CH_rbrace>>,
      <<CH_lbracket, CH_one, CH_comma, CH_quote, CH_a, CH_quote,
        CH_rbracket>>,
      <<CH_lbrace, CH_quote, CH_a, CH_quote, CH_colon, CH_one, CH_comma,
        CH_quote, CH_b, CH_quote, CH_colon, CH_quote, CH_a, CH_quote,
        CH_rbrace>>,
      <<CH_lbracket, CH_lbracket, CH_one, CH_rbracket, CH_comma, CH_lbrace,
        CH_quote, CH_a, CH_quote, CH_colon, CH_one, CH_rbrace,
        CH_rbracket>>,
      <<CH_lbrace, CH_quote, CH_a, CH_quote, CH_colon, CH_lbracket, CH_one,
        CH_comma, CH_quote, CH_a, CH_quote, CH_rbracket, CH_comma,
        CH_quote, CH_b, CH_quote, CH_colon, CH_lbrace, CH_rbrace,
        CH_rbrace>> }

\* root = json_parse(d); the program also keeps, for the properties, its
\* last call, the value as it read before that call and the blocks as they
\* were before it
RootLoaded(d, stored) ==
    /\ doc = d
    /\ mem = stored.mem
    /\ held = [root |-> stored.ptr, calls |-> 0, call |-> "none",
               was |-> View(stored.mem, stored.ptr),
               before |-> stored.mem.block]

InitStorage ==
    /\ \E d \in StorageDocs : RootLoaded(d, Store(EmptyMemory, json_parse(d)))
    /\ pc = "start"
    /\ g_json_last_error = "NONE"
    /\ base = 0
    /\ result = NULL
    /\ text = NULL
    /\ result2 = NULL
    /\ pretty = FALSE
    /\ parser = NoParser
    /\ consumed = 0
    /\ events = <<>>
    /\ before = 0
    /\ returned = "none"
    /\ refused = {}
    /\ failures = 0

\* the call was made in the memory m0 and left the memory m
Called(op, m0, m) ==
    /\ mem' = m
    /\ held' = [held EXCEPT
                   !.calls = @ + 1,
                   !.call = op,
                   !.was = View(m0, held.root),
                   !.before = m0.block]
    /\ g_json_last_error' = m.error
    /\ UNCHANGED <<pc, doc, base, result, text, result2, pretty, parser,
                   consumed, events, before, returned, refused, failures>>

\* json_array_append(array, scalar) with a new scalar
AppendElement ==
    /\ held.calls < MaxStorageCalls
    /\ FreeRoom(mem, 3)
    /\ \E array \in ArraysUnder(mem, held.root), scalar \in NewScalars(mem) :
           Called("append", scalar.mem,
                  mem_array_append(scalar.mem, array, scalar.ptr).mem)

\* json_array_remove(array, index)
RemoveElement ==
    /\ held.calls < MaxStorageCalls
    /\ \E array \in ArraysUnder(mem, held.root), index \in 0..MaxItems :
           Called("remove", mem, json_array_remove(mem, array, index).mem)

\* json_object_set(object, key, scalar) with a new scalar
SetMember ==
    /\ held.calls < MaxStorageCalls
    /\ FreeRoom(mem, 3)
    /\ \E object \in ObjectsUnder(mem, held.root), key \in GraphKeys,
          scalar \in NewScalars(mem) :
           Called("set", scalar.mem,
                  mem_object_set(scalar.mem, object, key, scalar.ptr).mem)

\* json_object_remove(object, key)
RemoveMember ==
    /\ held.calls < MaxStorageCalls
    /\ \E object \in ObjectsUnder(mem, held.root), key \in GraphKeys :
           Called("remove", mem, json_object_remove(mem, object, key).mem)

\* json_optimize_memory(root)
Optimize ==
    /\ held.calls < MaxStorageCalls
    /\ Called("optimize", mem, json_optimize_memory(mem, held.root))

NextStorage ==
    \/ AppendElement
    \/ RemoveElement
    \/ SetMember
    \/ RemoveMember
    \/ Optimize

SpecStorage == InitStorage /\ [][NextStorage]_vars

\* the elements a container block points to, in its order: the values of
\* an array, the keys of an object
Elements(block) ==
    IF block.kind # "value" THEN <<>>
    ELSE IF block.type = "JSON_ARRAY" THEN block.values
    ELSE IF block.type = "JSON_OBJECT"
    THEN [i \in 1..Len(block.pairs) |-> block.pairs[i].key]
    ELSE <<>>

ContainersUnder(m, p) == ArraysUnder(m, p) \cup ObjectsUnder(m, p)

\* the elements that are in old and in new stand in new in the order they
\* have in old, and the elements of old that new lacks have been freed
OrderKept(old, new) ==
    /\ \A i \in 1..Len(new) : \A j \in (i + 1)..Len(new) :
           \A a \in 1..Len(old) : \A b \in 1..Len(old) :
               (old[a] = new[i] /\ old[b] = new[j]) => a < b
    /\ \A a \in 1..Len(old) : old[a] \in Range(new) \/ IsFree(mem, old[a])
    /\ Cardinality(Range(old) \ Range(new)) <= 1

\* C20: after any sequence of json_array_append, json_array_remove,
\* json_object_set, json_object_remove and json_optimize_memory calls every
\* array and object under the root has capacity >= count, and the elements
\* that the last call left in a container stand in the order they had;
\* right after json_optimize_memory every container has capacity = count
\* and the root is json_equals-equal to what it was before the call.
StorageInvariant ==
    /\ \A q \in ContainersUnder(mem, held.root) :
           /\ mem.block[q].capacity >= Len(Elements(mem.block[q]))
           /\ OrderKept(Elements(held.before[q]), Elements(mem.block[q]))
    /\ held.call = "optimize" =>
           /\ \A q \in ContainersUnder(mem, held.root) :
                  mem.block[q].capacity = Len(Elements(mem.block[q]))
           /\ json_equals(View(mem, held.root), held.was)
           /\ json_equals(held.was, View(mem, held.root))
    /\ ~mem.undefined

\* a container that was shrunk to two elements has been appended to and
\* holds three elements in a storage of four
GrownAfterShrink ==
    /\ held.call = "append"
    /\ \E q \in ContainersUnder(mem, held.root) :
           /\ Len(Elements(mem.block[q])) = 3
           /\ mem.block[q].capacity = 4

----------------------------------------------------------------------------
(* Illegal whitespace *)

\* bytes below 0x21 that are neither NUL nor JSON whitespace
IsIllegalWhitespace(c) == c > 0 /\ c < 33 /\ ~is_json_whitespace(c)

\* the first byte after the opening of one of the contexts is an illegal
\* whitespace byte: it stands where the lexer looks for a token
IllegalWhitespaceBetweenTokens ==
    \E c \in LexContexts :
        /\ Len(doc) > Len(c.prefix)
        /\ SubSeq(doc, 1, Len(c.prefix)) = c.prefix
        /\ IsIllegalWhitespace(doc[Len(c.prefix) + 1])

\* C24: a document with an illegal whitespace byte between tokens gives no
\* value and the reported code INVALID_WHITESPACE, whether the skip runs
\* the scalar loop or the vector path.
IllegalWhitespaceReported ==
    (pc = "parsed" /\ IllegalWhitespaceBetweenTokens) =>
        /\ IsNull(result.value)
        /\ result.error = "INVALID_WHITESPACE"

\* the document [ 0x01 ] has been parsed from an address the scalar loop
\* serves
ControlByteParsed ==
    /\ pc = "parsed"
    /\ doc = <<CH_lbracket, 1, CH_rbracket>>
    /\ base = 1
    /\ IsNull(result.value)

----------------------------------------------------------------------------
(* Result and error record *)

\* C29: json_parse_with_error returns a value exactly when the code it
\* reports is NONE, and the last-error record holds the same code on return.
ResultAgreesWithError ==
    pc = "parsed" =>
        /\ ~IsNull(result.value) <=> result.error = "NONE"
        /\ g_json_last_error = result.error

\* a value between two spaces has been parsed
ValueAfterWhitespaceParsed ==
    /\ pc = "parsed"
    /\ doc = <<CH_space, CH_one, CH_space>>
    /\ ~IsNull(result.value)
    /\ result.error = "NONE"

----------------------------------------------------------------------------
(* Depth counter of the parser *)

MaxBalancePieces == 3

\* what stands inside a container: elements, separators, openings and
\* closings, keys
BalancePieces ==
    { <<CH_one>>, <<CH_comma>>, <<CH_colon>>, <<CH_lbracket>>,
      <<CH_rbracket>>, <<CH_lbrace>>, <<CH_rbrace>>,
      <<CH_quote, CH_a, CH_quote>> }

\* a container opened around the pieces, closed or left open
BalanceDocs ==
    {o.open \o d \o (IF closed THEN o.close ELSE <<>>) :
        o \in Openers, d \in Concats(BalancePieces, MaxBalancePieces),
        closed \in BOOLEAN}

InitBalance ==
    /\ doc \in BalanceDocs \cup NestingDocs
    /\ base \in {0, 1}
    /\ pc = "start"
    /\ result = NULL
    /\ text = NULL
    /\ result2 = NULL
    /\ pretty = FALSE
    /\ parser = NoParser
    /\ consumed = 0
    /\ events = <<>>
    /\ before = 0
    /\ returned = "none"
    /\ refused = {}
    /\ failures = 0
    /\ g_json_last_error = "NONE"
    /\ mem = NoMemory
    /\ held = NoPointers

NextBalance == ParseNested

SpecBalance == InitBalance /\ [][NextBalance]_vars

\* parse_value entered on the first token of s by a tokenizer whose depth
\* counter stands at d
EnteredAt(s, addr, d) ==
    parse_value(Advance([Tokenizer(s, addr, NestingLimit + d)
                            EXCEPT !.depth = d, !.low = d]))

OverflowInsideMember ==
    /\ pc = "parsed"
    /\ result.error = "STACK_OVERFLOW"
    /\ doc[1] = CH_lbrace
    /\ doc \in BalanceDocs

----------------------------------------------------------------------------
(* Path queries: json_advanced.c *)

CH_bang == 33
CH_dollar == 36
CH_apos == 39
CH_lparen == 40
CH_rparen == 41
CH_star == 42
CH_lt == 60
CH_eq == 61
CH_gt == 62
CH_question == 63
CH_at == 64

\* while (*ptr && *ptr is none of stops) ptr++
RECURSIVE ScanTo(_, _, _)
ScanTo(s, p, stops) ==
    IF At(s, p) = 0 \/ At(s, p) \in stops THEN p ELSE ScanTo(s, p + 1, stops)

\* while (*ptr && *ptr != ']') ptr++; if (*ptr == ']') ptr++
AfterBracket(s, p) ==
    IF At(s, ScanTo(s, p, {CH_rbracket})) = CH_rbracket
    THEN ScanTo(s, p, {CH_rbracket}) + 1
    ELSE ScanTo(s, p, {CH_rbracket})

\* atoi on text that starts with a minus sign or a digit
RECURSIVE AtoiFrom(_, _, _)
AtoiFrom(s, p, acc) ==
    IF isdigit(At(s, p)) THEN AtoiFrom(s, p + 1, acc * 10 + At(s, p) - CH_zero)
    ELSE acc

atoi(s, p) ==
    IF At(s, p) = CH_minus THEN 0 - AtoiFrom(s, p + 1, 0)
    ELSE AtoiFrom(s, p, 0)

\* while (*ptr && (*ptr == '-' || isdigit(*ptr))) ptr++
RECURSIVE SkipIndex(_, _)
SkipIndex(s, p) ==
    IF At(s, p) = CH_minus \/ isdigit(At(s, p)) THEN SkipIndex(s, p + 1)
    ELSE p

StartsIndex(s, p) == At(s, p) = CH_minus \/ isdigit(At(s, p))

\* atof on the text of a JSON number
atof(s) == strtod(s, 1, Len(s) + 1).value

\* json_array_get (json_parser.c lines 924-941); the index is a size_t, so
\* a negative int arrives as a number beyond every count
mem_array_get(m, array, index) ==
    IF array = 0 THEN [mem |-> SetError(m, "NULL_POINTER"), ptr |-> 0]
    ELSE IF TypeAt(m, array) # "JSON_ARRAY"
    THEN [mem |-> SetError(m, "INVALID_TYPE"), ptr |-> 0]
    ELSE IF index < 0 \/ index >= Len(m.block[array].values)
    THEN [mem |-> SetError(m, "INDEX_OUT_OF_BOUNDS"), ptr |-> 0]
    ELSE [mem |-> m, ptr |-> m.block[array].values[index + 1]]

\* lines 28-32: the operator of the filter starts at p; at most two bytes
OperatorEnd(filter, p) ==
    IF At(filter, p) \notin {CH_eq, CH_bang, CH_lt, CH_gt} THEN p
    ELSE IF At(filter, p + 1) \notin {CH_eq, CH_bang, CH_lt, CH_gt}
    THEN p + 1
    ELSE p + 2

\* lines 42-46: the quotes around the comparison value are trimmed
Trimmed(value_str) ==
    IF At(value_str, 1) \in {CH_quote, CH_apos}
    THEN SubSeq(value_str, 2, Len(value_str) - 1)
    ELSE value_str

\* lines 48-62: the field is compared with the text
FieldMatches(m, field, op, value_str) ==
    IF op = <<CH_eq, CH_eq>>
    THEN IF TypeAt(m, field) = "JSON_STRING"
         THEN CharsAt(m, m.block[field].string_value) = value_str
         ELSE IF TypeAt(m, field) = "JSON_NUMBER"
         THEN m.block[field].number_value = atof(value_str)
         ELSE FALSE
    ELSE IF op = <<CH_bang, CH_eq>>
    THEN IF TypeAt(m, field) = "JSON_STRING"
         THEN CharsAt(m, m.block[field].string_value) # value_str
         ELSE IF TypeAt(m, field) = "JSON_NUMBER"
         THEN m.block[field].number_value # atof(value_str)
         ELSE FALSE
    ELSE FALSE

\* lines 22-65: the key of the filter ends before position ke; got is what
\* json_object_get answered
FilterCompared(got, filter, ke) ==
    IF got.ptr = 0 THEN [mem |-> got.mem, ok |-> FALSE]
    ELSE [mem |-> got.mem,
          ok |-> FieldMatches(
                     got.mem, got.ptr,
                     SubSeq(filter, ke, OperatorEnd(filter, ke) - 1),
                     Trimmed(SubSeq(filter, OperatorEnd(filter, ke),
                                    ScanTo(filter, OperatorEnd(filter, ke),
                                           {CH_rbracket}) - 1)))]

\* lines 11-22: the key of the filter starts at position ks
FilterKeyed(m, item, filter, ks) ==
    FilterCompared(
        mem_object_get(m, item,
                       SubSeq(filter, ks,
                              ScanTo(filter, ks,
                                     {CH_eq, CH_bang, CH_lt, CH_gt}) - 1)),
        filter, ScanTo(filter, ks, {CH_eq, CH_bang, CH_lt, CH_gt}))

\* path_matches_filter (lines 7-66): the memory after the call and the
\* answer
path_matches_filter(m, item, filter) ==
    IF At(filter, 1) # CH_at THEN [mem |-> m, ok |-> TRUE]
    ELSE FilterKeyed(m, item, filter,
                     IF At(filter, 2) = CH_dot THEN 3 ELSE 2)

\* the loop goes on with current at position next of the path
Go(m, current, next) ==
    [mem |-> m, current |-> current, next |-> next, done |-> FALSE]

\* return value
Return(m, value) ==
    [mem |-> m, current |-> value, next |-> 0, done |-> TRUE]

\* json_array_append(array, json_deep_copy(value)) for each value from
\* values[i] on
RECURSIVE CopyInto(_, _, _, _)
CopyInto(m, array, values, i) ==
    IF i > Len(values) THEN m
    ELSE CopyInto(mem_array_append(json_deep_copy(m, values[i]).mem, array,
                                   json_deep_copy(m, values[i]).ptr).mem,
                  array, values, i + 1)

\* the new array cr has taken the copies of values; current is freed and
\* the array takes its place
Collected(cr, current, values, next) ==
    Go(json_free(CopyInto(cr.mem, cr.ptr, values, 1), current), cr.ptr, next)

\* lines 132-138 and 233-239: got is what the lookup answered
Found(got, current, next) ==
    IF got.ptr # 0
    THEN Go(json_free(json_deep_copy(got.mem, got.ptr).mem, current),
            json_deep_copy(got.mem, got.ptr).ptr, next)
    ELSE Return(json_free(got.mem, current), 0)

\* the values of the pairs of an object
PairValues(m, object) ==
    [i \in 1..Len(m.block[object].pairs) |-> m.block[object].pairs[i].value]

\* lines 104-119: .* at position p - 1
WildcardStep(m, current, p) ==
    IF TypeAt(m, current) = "JSON_OBJECT"
    THEN Collected(mem_create_array(m), current, PairValues(m, current), p)
    ELSE Go(m, current, p)

\* lines 121-145: the key starts at position p and ends before position q;
\* its buffer is allocated and freed within the step
KeyStep(m, current, path, p, q) ==
    IF TypeAt(m, current) = "JSON_OBJECT"
    THEN Found(mem_object_get(m, current, SubSeq(path, p, q - 1)), current, q)
    ELSE Return(json_free(m, current), 0)

\* lines 93-145: the byte after the dot is at position p
DotStep(m, current, path, p) ==
    IF At(path, p) = CH_dot THEN Go(m, current, p + 1)
    ELSE IF At(path, p) = CH_star THEN WildcardStep(m, current, p + 1)
    ELSE KeyStep(m, current, path, p,
                 ScanTo(path, p, {CH_dot, CH_lbracket}))

\* lines 164-169: the walk over the filter is at position p with
\* paren_depth open
RECURSIVE ParenEnd(_, _, _)
ParenEnd(path, p, paren_depth) ==
    IF At(path, p) = 0 \/ paren_depth <= 0 THEN p
    ELSE ParenEnd(path, p + 1,
                  IF At(path, p) = CH_lparen THEN paren_depth + 1
                  ELSE IF At(path, p) = CH_rparen THEN paren_depth - 1
                  ELSE paren_depth)

\* lines 180-184: the elements from values[i] on that match the filter are
\* copied into the array filtered
RECURSIVE FilterInto(_, _, _, _, _)
FilterInto(m, filtered, values, filter, i) ==
    IF i > Len(values) THEN m
    ELSE IF path_matches_filter(m, values[i], filter).ok
    THEN FilterInto(
             mem_array_append(
                 json_deep_copy(path_matches_filter(m, values[i], filter).mem,
                                values[i]).mem,
                 filtered,
                 json_deep_copy(path_matches_filter(m, values[i], filter).mem,
                                values[i]).ptr).mem,
             filtered, values, filter, i + 1)
    ELSE FilterInto(path_matches_filter(m, values[i], filter).mem, filtered,
                    values, filter, i + 1)

Filtered(cr, current, filter, next) ==
    Go(json_free(FilterInto(cr.mem, cr.ptr, cr.mem.block[current].values,
                            filter, 1),
                 current),
       cr.ptr, next)

\* lines 171-193: the filter starts at position fs and the walk over it
\* ended at position pe.  filter_len = pe - fs - 1 is a size_t: when the
\* path ends where the filter starts it wraps around, and strncpy writes
\* that many bytes into the buffer of one byte
FilterStep(m, current, path, fs, pe) ==
    IF pe - fs - 1 < 0 THEN Return([m EXCEPT !.undefined = TRUE], 0)
    ELSE IF TypeAt(m, current) = "JSON_ARRAY"
    THEN Filtered(mem_create_array(m), current, SubSeq(path, fs, pe - 2),
                  AfterBracket(path, pe))
    ELSE Go(m, current, AfterBracket(path, pe))

\* the loop of lines 224-226 reads arr->values[i] for a negative i
SliceReadsOutside(start_idx, stop) == start_idx < 0 /\ start_idx < stop

\* the lesser of actual_end and (int)arr->count
SliceStop(end_idx, count) ==
    IF end_idx < 0 \/ end_idx > count THEN count ELSE end_idx

\* lines 220-229
SliceStep(m, current, start_idx, end_idx, next) ==
    IF SliceReadsOutside(start_idx,
                         SliceStop(end_idx, Len(m.block[current].values)))
    THEN Return([m EXCEPT !.undefined = TRUE], 0)
    ELSE Collected(mem_create_array(m), current,
                   SubSeq(m.block[current].values, start_idx + 1,
                          SliceStop(end_idx, Len(m.block[current].values))),
                   next)

\* lines 231-240
ItemStep(m, current, start_idx, next) ==
    Found(mem_array_get(m, current,
                        IF start_idx < 0
                        THEN Len(m.block[current].values) + start_idx
                        ELSE start_idx),
          current, next)

\* lines 217-245
Indexed(m, current, start_idx, is_slice, end_idx, next) ==
    IF TypeAt(m, current) # "JSON_ARRAY" THEN Return(json_free(m, current), 0)
    ELSE IF is_slice THEN SliceStep(m, current, start_idx, end_idx, next)
    ELSE ItemStep(m, current, start_idx, next)

\* lines 205-215: the start index has been read and ptr is at position p1
AfterStart(m, current, path, start_idx, p1) ==
    IF At(path, p1) # CH_colon
    THEN Indexed(m, current, start_idx, FALSE, -1, AfterBracket(path, p1))
    ELSE IF StartsIndex(path, p1 + 1)
    THEN Indexed(m, current, start_idx, TRUE, atoi(path, p1 + 1),
                 AfterBracket(path, SkipIndex(path, p1 + 1)))
    ELSE Indexed(m, current, start_idx, TRUE, -1,
                 AfterBracket(path, p1 + 1))

\* lines 196-203
IndexStep(m, current, path, p) ==
    IF StartsIndex(path, p)
    THEN AfterStart(m, current, path, atoi(path, p), SkipIndex(path, p))
    ELSE AfterStart(m, current, path, 0, p)

\* lines 147-245: the byte after the bracket is at position p
BracketStep(m, current, path, p) ==
    IF At(path, p) = CH_star THEN Go(m, current, AfterBracket(path, p + 1))
    ELSE IF At(path, p) = CH_question
    THEN FilterStep(m, current, path,
                    IF At(path, p + 1) = CH_lparen THEN p + 2 ELSE p + 1,
                    ParenEnd(path,
                             IF At(path, p + 1) = CH_lparen THEN p + 2
                             ELSE p + 1, 1))
    ELSE IndexStep(m, current, path, p)

\* one turn of the loop of lines 92-249
PathStep(m, current, path, ptr) ==
    IF At(path, ptr) = CH_dot THEN DotStep(m, current, path, ptr + 1)
    ELSE IF At(path, ptr) = CH_lbracket
    THEN BracketStep(m, current, path, ptr + 1)
    ELSE Go(m, current, ptr + 1)

\* while (*ptr && current)
RECURSIVE PathLoop(_, _, _, _), Turned(_, _)
PathLoop(m, current, path, ptr) ==
    IF At(path, ptr) = 0 \/ current = 0 THEN [mem |-> m, ptr |-> current]
    ELSE Turned(PathStep(m, current, path, ptr), path)

Turned(r, path) ==
    IF r.done THEN [mem |-> r.mem, ptr |-> r.current]
    ELSE PathLoop(r.mem, r.current, path, r.next)

\* json_path_query (lines 68-252) for a path that is a string: the memory
\* after the call and the pointer returned
json_path_query(m, root, path) ==
    IF root = 0 THEN [mem |-> SetError(m, "NULL_POINTER"), ptr |-> 0]
    ELSE IF At(path, 1) # CH_dollar
    THEN [mem |-> SetError(m, "INVALID_SYNTAX"), ptr |-> 0]
    ELSE PathLoop(json_deep_copy(m, root).mem, json_deep_copy(m, root).ptr,
                  path, 2)

----------------------------------------------------------------------------
(* A program that queries a parsed value by a path *)

MaxPathPieces == 2

MaxSliceIndex == 4

\* the documents whose values are queried
PathDocs ==
    { <<CH_one>>,
      <<CH_lbracket, CH_rbracket>>,
      <<CH_lbracket, CH_one, CH_comma, CH_zero, CH_comma, CH_quote, CH_a,
        CH_quote, CH_rbracket>>,
      <<CH_lbrace, CH_quote, CH_a, CH_quote, CH_colon, CH_lbracket, CH_one,
        CH_rbracket, CH_comma, CH_quote, CH_b, CH_quote, CH_colon,
        CH_quote, CH_b, CH_quote, CH_rbrace>>,
      <<CH_lbracket, CH_lbrace, CH_quote, CH_a, CH_quote, CH_colon, CH_one,
        CH_rbrace, CH_comma, CH_lbrace, CH_quote, CH_a, CH_quote, CH_colon,
        CH_quote, CH_b, CH_quote, CH_rbrace, CH_comma, CH_one,
        CH_rbracket>> }

\* the text of an index between -9 and 9
IndexText(n) ==
    IF n < 0 THEN <<CH_minus, CH_zero - n>> ELSE <<CH_zero + n>>

\* a bound of a slice: given as a number, or left out
SliceBounds ==
    {[given |-> FALSE, n |-> 0]} \cup
    {[given |-> TRUE, n |-> k] : k \in (0 - 2)..MaxSliceIndex}

BoundText(b) == IF b.given THEN IndexText(b.n) ELSE <<>>

\* the step [start:end]
SliceText(s, e) ==
    <<CH_lbracket>> \o BoundText(s) \o <<CH_colon>> \o BoundText(e)
        \o <<CH_rbracket>>

SliceTexts == {SliceText(s, e) : s, e \in SliceBounds}

\* the step [n]
ItemText(n) == <<CH_lbracket>> \o IndexText(n) \o <<CH_rbracket>>

ItemIndices == {0 - 4, 0 - 1, 0, 2, 3}

\* the step .key
KeyText(key) == <<CH_dot>> \o key

\* the step [?(@.a==1)] or [?(@.a!=1)]
FilterText(op) ==
    <<CH_lbracket, CH_question, CH_lparen, CH_at, CH_dot, CH_a>> \o op
        \o <<CH_one, CH_rparen, CH_rbracket>>

FilterTexts == {FilterText(<<CH_eq, CH_eq>>), FilterText(<<CH_bang, CH_eq>>)}

\* the steps that paths of several steps are made of
PathPieces ==
    {KeyText(<<CH_a>>), KeyText(<<CH_e>>), <<CH_dot, CH_star>>,
     <<CH_dot, CH_dot>>, <<CH_lbracket, CH_star, CH_rbracket>>,
     <<CH_lbracket, CH_question, CH_lparen>>,
     SliceText([given |-> TRUE, n |-> 1], [given |-> FALSE, n |-> 0]),
     SliceText([given |-> TRUE, n |-> 0 - 1], [given |-> FALSE, n |-> 0])}
        \cup {ItemText(n) : n \in ItemIndices} \cup FilterTexts

\* the paths queried: $ and steps, one slice, and a path without its $
Paths ==
    {<<CH_dollar>> \o q : q \in Concats(PathPieces, MaxPathPieces)}
        \cup {<<CH_dollar>> \o q : q \in SliceTexts}
        \cup {KeyText(<<CH_a>>)}

\* root = json_parse(d), and the path is q
RootParsed(d, q, stored) ==
    /\ doc = d
    /\ mem = stored.mem
    /\ held = [root |-> stored.ptr, path |-> q, found |-> 0,
               was |-> View(stored.mem, stored.ptr), changes |-> 0,
               outcome |-> "none"]

InitPath ==
    /\ \E d \in PathDocs, q \in Paths :
           RootParsed(d, q, Store(EmptyMemory, json_parse(d)))
    /\ pc = "start"
    /\ g_json_last_error = "NONE"
    /\ base = 0
    /\ result = NULL
    /\ text = NULL
    /\ result2 = NULL
    /\ pretty = FALSE
    /\ parser = NoParser
    /\ consumed = 0
    /\ events = <<>>
    /\ before = 0
    /\ returned = "none"
    /\ refused = {}
    /\ failures = 0

\* what a call that has run into undefined behaviour may do
UndefinedOutcomes == {"crash", "garbage"}

\* the call has left the memory as r says and returned r.ptr
Queried(r) ==
    /\ mem' = r.mem
    /\ g_json_last_error' = r.mem.error
    /\ IF r.mem.undefined
       THEN /\ pc' = "undefined"
            /\ \E out \in UndefinedOutcomes :
                   held' = [held EXCEPT !.outcome = out]
       ELSE /\ pc' = "queried"
            /\ held' = [held EXCEPT !.found = r.ptr]
    /\ UNCHANGED others

\* found = json_path_query(root, path); the call holds at most the copy of
\* the root, a new array and the copies it takes
Query ==
    /\ pc = "start"
    /\ FreeRoom(mem, 2 * Cardinality(BlocksUnder(mem, held.root)) + 2)
    /\ Queried(json_path_query(mem, held.root, held.path))

\* json_array_append(array, scalar) on an array of what was found
AppendToFound ==
    /\ pc = "queried"
    /\ held.found # 0
    /\ held.changes < 1
    /\ FreeRoom(mem, 3)
    /\ \E array \in ArraysUnder(mem, held.found),
          scalar \in NewScalars(mem) :
           Changed(mem_array_append(scalar.mem, array, scalar.ptr).mem)

\* json_object_set(object, key, scalar) on an object of what was found
SetInFound ==
    /\ pc = "queried"
    /\ held.found # 0
    /\ held.changes < 1
    /\ FreeRoom(mem, 3)
    /\ \E object \in ObjectsUnder(mem, held.found), key \in GraphKeys,
          scalar \in NewScalars(mem) :
           Changed(mem_object_set(scalar.mem, object, key, scalar.ptr).mem)

\* json_free(found)
FreeFound ==
    /\ pc = "queried"
    /\ held.found # 0
    /\ mem' = json_free(mem, held.found)
    /\ held' = [held EXCEPT !.found = 0]
    /\ pc' = "freed"
    /\ g_json_last_error' = mem'.error
    /\ UNCHANGED others

NextPath ==
    \/ Query
    \/ AppendToFound
    \/ SetInFound
    \/ FreeFound

SpecPath == InitPath /\ [][NextPath]_vars

\* C21: whatever the path, json_path_query leaves the root reading as it
\* did, what it returns has no block in common with the root, and the root
\* still reads the same after what was returned is changed or freed; no
\* call reads or writes outside its blocks.
QueryLeavesRoot ==
    pc # "start" =>
        /\ ~mem.undefined
        /\ View(mem, held.root) = held.was
        /\ held.found # 0 =>
               BlocksUnder(mem, held.found) \cap BlocksUnder(mem, held.root)
                   = {}

\* the query $[-1:] has been made on [1,0,"a"]
NegativeStartQueried ==
    /\ pc = "undefined"
    /\ held.was.type = "JSON_ARRAY"
    /\ Len(held.was.values) = 3
    /\ held.path = <<CH_dollar, CH_lbracket, CH_minus, CH_one, CH_colon,
                     CH_rbracket>>

\* min(max(x, 0), len)
Clamp(x, len) == IF x < 0 THEN 0 ELSE IF x > len THEN len ELSE x

\* the elements the slice from s to e of an array of len elements holds
SliceOf(values, s, e) ==
    SubSeq(values, Clamp(IF s.given THEN s.n ELSE 0, Len(values)) + 1,
           Clamp(IF e.given THEN e.n ELSE Len(values), Len(values)))

\* the values of the elements of the array at p
ElementViews(m, p) ==
    [i \in 1..Len(m.block[p].values) |-> View(m, m.block[p].values[i])]

\* C22: the step [start:end] on an array returns a new array of the
\* elements from clamp(start) up to clamp(end), a missing end being the
\* length, and reads no element outside the array.
SliceClamped ==
    \A s, e \in SliceBounds :
        (/\ pc \in {"queried", "undefined"}
         /\ held.was.type = "JSON_ARRAY"
         /\ held.path = <<CH_dollar>> \o SliceText(s, e)) =>
            /\ ~mem.undefined
            /\ held.found # 0
            /\ TypeAt(mem, held.found) = "JSON_ARRAY"
            /\ ElementViews(mem, held.found) = SliceOf(held.was.values, s, e)

\* the query $[0:-1] has been made on [1,0,"a"] and returned three elements
NegativeEndQueried ==
    /\ pc = "queried"
    /\ held.path = <<CH_dollar, CH_lbracket, CH_zero, CH_colon, CH_minus,
                     CH_one, CH_rbracket>>
    /\ held.found # 0
    /\ Len(mem.block[held.found].values) = 3

\* the path is $ and one step that does not match the root: a key the root
\* lacks or a key of a non-object, an index out of range or an index of a
\* non-array, a filter or a slice of a non-array
StepFails ==
    \/ \E key \in {<<CH_a>>, <<CH_e>>} :
           /\ held.path = <<CH_dollar>> \o KeyText(key)
           /\ IF held.was.type = "JSON_OBJECT" THEN ~Has(held.was, key)
              ELSE TRUE
    \/ \E n \in ItemIndices :
           /\ held.path = <<CH_dollar>> \o ItemText(n)
           /\ IF held.was.type = "JSON_ARRAY"
              THEN \/ n >= Len(held.was.values)
                   \/ n + Len(held.was.values) < 0
              ELSE TRUE
    \/ /\ held.was.type # "JSON_ARRAY"
       /\ \E q \in FilterTexts \cup SliceTexts :
              held.path = <<CH_dollar>> \o q

\* C23: a step that does not match makes json_path_query return no value
\* and leave the last-error code as it was, and a path that does not start
\* with $ gives no value and INVALID_SYNTAX.
FailedLookupSilent ==
    pc = "queried" =>
        /\ StepFails =>
               /\ held.found = 0
               /\ mem.error = "NONE"
               /\ g_json_last_error = "NONE"
        /\ held.path[1] # CH_dollar =>
               /\ held.found = 0
               /\ g_json_last_error = "INVALID_SYNTAX"

\* the query $.e has been made on an object without the key e
MissingKeyQueried ==
    /\ pc = "queried"
    /\ held.path = <<CH_dollar, CH_dot, CH_e>>
    /\ held.was.type = "JSON_OBJECT"
    /\ held.found = 0

----------------------------------------------------------------------------
(* A program that compares two parsed values once *)

\* the documents compared: those of the equivalence, and an object with
\* one key that the other one-key object lacks
PureDocs ==
    EqualsDocs \cup
        { <<CH_lbrace, CH_quote, CH_b, CH_quote, CH_colon, CH_one,
            CH_rbrace>> }

\* val1 and val2 have been parsed
OperandsLoaded(val1, val2) ==
    /\ mem = val2.mem
    /\ held = [val1 |-> val1.ptr, val2 |-> val2.ptr, eq |-> FALSE,
               was |-> val2.mem]

InitPure ==
    /\ \E d1 \in PureDocs, d2 \in PureDocs :
           OperandsLoaded(Store(EmptyMemory, json_parse(d1)),
                          Store(Store(EmptyMemory, json_parse(d1)).mem,
                                json_parse(d2)))
    /\ pc = "start"
    /\ g_json_last_error = "NONE"
    /\ NoDocument

\* eq = json_equals(val1, val2)
CallEquals ==
    /\ pc = "start"
    /\ mem' = mem_equals(mem, held.val1, held.val2).mem
    /\ held' = [held EXCEPT !.eq = mem_equals(mem, held.val1, held.val2).eq]
    /\ g_json_last_error' = mem'.error
    /\ pc' = "compared"
    /\ UNCHANGED others

\* eq = json_equals(val2, val1)
CallEqualsSwapped ==
    /\ pc = "start"
    /\ mem' = mem_equals(mem, held.val2, held.val1).mem
    /\ held' = [held EXCEPT !.eq = mem_equals(mem, held.val2, held.val1).eq]
    /\ g_json_last_error' = mem'.error
    /\ pc' = "compared"
    /\ UNCHANGED others

NextPure == CallEquals \/ CallEqualsSwapped

SpecPure == InitPure /\ [][NextPure]_vars

\* C30: a call of json_equals leaves both operands and the last-error
\* record as they were before the call.
EqualsPure ==
    pc = "compared" =>
        /\ mem.block = held.was.block
        /\ mem.error = held.was.error
        /\ g_json_last_error = "NONE"

\* two objects of one key each, a and b, have been compared
DisjointKeysCompared ==
    /\ pc = "compared"
    /\ TypeAt(mem, held.val1) = "JSON_OBJECT"
    /\ TypeAt(mem, held.val2) = "JSON_OBJECT"
    /\ Len(mem.block[held.val1].pairs) = 1
    /\ Len(mem.block[held.val2].pairs) = 1
    /\ CharsAt(mem, mem.block[held.val1].pairs[1].key)
           # CharsAt(mem, mem.block[held.val2].pairs[1].key)
    /\ ~held.eq

----------------------------------------------------------------------------
(* Stream driver inside string literals *)

MaxStringPieces == 3

\* what stands inside a string literal: escaped quotes and backslashes,
\* brackets, a letter
StringBytes ==
    { <<CH_backslash, CH_quote>>, <<CH_backslash, CH_backslash>>,
      <<CH_lbracket>>, <<CH_rbracket>>, <<CH_lbrace>>, <<CH_rbrace>>,
      <<CH_a>> }

\* the string is an element of an array, or the key of a member
StringContexts ==
    { [prefix |-> <<CH_lbracket, CH_quote>>,
       suffix |-> <<CH_quote, CH_rbracket>>],
      [prefix |-> <<CH_lbrace, CH_quote>>,
       suffix |-> <<CH_quote, CH_colon, CH_one, CH_rbrace>>] }

StringDocs ==
    {c.prefix \o d \o c.suffix :
        c \in StringContexts, d \in Concats(StringBytes, MaxStringPieces)}

InitStrings ==
    /\ doc \in StringDocs
    /\ pc = "stream"
    /\ parser = json_stream_parser_create
    /\ consumed = 0
    /\ events = <<>>
    /\ before = 0
    /\ returned = "none"
    /\ refused = {}
    /\ failures = 0
    /\ g_json_last_error = "NONE"
    /\ mem = NoMemory
    /\ held = NoPointers
    /\ base = 0
    /\ result = NULL
    /\ text = NULL
    /\ result2 = NULL
    /\ pretty = FALSE

NextStrings == Chunk \/ ParseFile

SpecStrings == InitStrings /\ [][NextStrings]_vars

\* the bytes of doc fed so far
Fed == SubSeq(doc, 1, consumed)

\* C27: while the chunks of a well-formed container document are fed, the
\* depth counter and the in-string flag are those of JSON's own reading of
\* the bytes fed so far, wherever the chunks end, and the depth is 0 only
\* before the first byte and from the closing bracket on.
StringStateKept ==
    (pc = "stream" /\ ContainerDocument /\ failures = 0) =>
        /\ parser.depth = Len(BracketsOf(Fed).open)
        /\ parser.in_string = BracketsOf(Fed).in_string
        /\ parser.depth = 0 <=> (consumed = 0 \/ consumed >= LastByte)

\* the chunk fed last ended between the backslash and the quote of ["\"]"]
EscapeSplit ==
    /\ pc = "stream"
    /\ doc = <<CH_lbracket, CH_quote, CH_backslash, CH_quote, CH_rbracket,
               CH_quote, CH_rbracket>>
    /\ consumed = 3
    /\ parser.escaped
    /\ parser.depth = 1

----------------------------------------------------------------------------
(* Handles of the embedding: python_bindings.c *)

CH_c == 99
CH_d == 100
CH_g == 103
CH_h == 104
CH_o == 111
CH_w == 119

\* the keys of a difference (json_advanced.c lines 303-307, 317)
KeyChanged == <<CH_c, CH_h, CH_a, CH_n, CH_g, CH_e, CH_d>>

KeyOld == <<CH_o, CH_l, CH_d>>

KeyNew == <<CH_n, CH_e, CH_w>>

\* every JsonValue that can be reached from p has not been freed
Sound(m, p) == \A q \in Reach(m, {p}) : IsValue(m, q)

\* json_object_set(object, key, v) where v is the value just created
WithPair(object, key, cr) == mem_object_set(cr.mem, object, key, cr.ptr).mem

\* json_diff, lines 302-308: e is the answer of json_equals
DiffInto(e, diff, val1, val2) ==
    IF e.eq
    THEN [mem |-> WithPair(diff, KeyChanged, mem_create_bool(e.mem, FALSE)),
          ptr |-> diff]
    ELSE [mem |->
              WithPair(diff, KeyNew,
                  json_deep_copy(
                      WithPair(diff, KeyOld,
                          json_deep_copy(
                              WithPair(diff, KeyChanged,
                                       mem_create_bool(e.mem, TRUE)),
                              val1)),
                      val2)),
          ptr |-> diff]

\* json_diff (json_advanced.c lines 299-311)
json_diff(m, val1, val2) ==
    DiffInto(mem_equals(mem_create_object(m).mem, val1, val2),
             mem_create_object(m).ptr, val1, val2)

\* json_patch, lines 319-320: the target has been freed, m is the memory
\* after that; new_val is read after the free
Patched(m, new_val) ==
    IF m.undefined \/ ~Sound(m, new_val)
    THEN [mem |-> [m EXCEPT !.undefined = TRUE], ptr |-> 0]
    ELSE json_deep_copy(m, new_val)

\* json_patch (json_advanced.c lines 314-324)
json_patch(m, target, patch) ==
    IF target = 0 \/ patch = 0 THEN [mem |-> m, ptr |-> target]
    ELSE IF TypeAt(m, patch) # "JSON_OBJECT" THEN [mem |-> m, ptr |-> target]
    ELSE IF mem_object_get(m, patch, KeyNew).ptr # 0
    THEN Patched(json_free(m, target), mem_object_get(m, patch, KeyNew).ptr)
    ELSE [mem |-> mem_object_get(m, patch, KeyNew).mem, ptr |-> target]

----------------------------------------------------------------------------
(* A program of the embedding that makes binding calls and drops handles *)

MaxBindingCalls == 3

\* [1], {"new":1}, and [ which does not parse
HandleDocs ==
    { <<CH_lbracket, CH_one, CH_rbracket>>,
      <<CH_lbrace, CH_quote, CH_n, CH_e, CH_w, CH_quote, CH_colon, CH_one,
        CH_rbrace>>,
      <<CH_lbracket>> }

HandleIndices == {0, 1}

InitHandles ==
    /\ mem = EmptyMemory
    /\ held = [handles |-> <<>>, calls |-> 0]
    /\ pc = "run"
    /\ g_json_last_error = "NONE"
    /\ NoDocument

\* the handles the program still holds
LiveHandles == {i \in 1..Len(held.handles) : held.handles[i].live}

\* PyCapsule_GetPointer(capsule, "JsonValue")
Pointer(i) == held.handles[i].ptr

\* the program may make one more binding call, which has n blocks to allocate
MayCall(n) ==
    /\ pc = "run"
    /\ held.calls < MaxBindingCalls
    /\ FreeRoom(mem, n)

\* the memory is m after the call and the handles are hs
Landed(m, hs) ==
    /\ mem' = m
    /\ g_json_last_error' = m.error
    /\ held' = [handles |-> hs, calls |-> held.calls + 1]
    /\ pc' = IF m.undefined THEN "undefined" ELSE "run"
    /\ UNCHANGED others

\* PyCapsule_New(r.ptr, "JsonValue", destructor), which fails for NULL; a
\* call that returns NULL raises an exception and makes no handle
Made(r, destructor) ==
    IF r.ptr = 0 \/ r.mem.undefined THEN Landed(r.mem, held.handles)
    ELSE Landed(r.mem, Append(held.handles,
                              [ptr |-> r.ptr, destructor |-> destructor,
                               live |-> TRUE]))

\* the call reads a JsonValue that has been freed
Dangling == Landed([mem EXCEPT !.undefined = TRUE], held.handles)

\* py_parse (lines 19-48)
PyParse ==
    /\ MayCall(3)
    /\ \E d \in HandleDocs :
           IF IsNull(json_parse(d))
           THEN Landed(SetError(mem, json_parse_with_error(d, 0).error),
                       held.handles)
           ELSE Made(Store(mem, json_parse(d)), TRUE)

\* py_free (lines 221-233): the capsule keeps its pointer and its destructor
PyFree ==
    /\ pc = "run"
    /\ \E i \in LiveHandles :
           /\ mem' = json_free(mem, Pointer(i))
           /\ pc' = IF mem'.undefined THEN "undefined" ELSE "run"
    /\ UNCHANGED <<held, g_json_last_error, others>>

\* py_array_get (lines 489-530)
PyArrayGet ==
    /\ MayCall(0)
    /\ \E i \in LiveHandles, index \in HandleIndices :
           IF ~IsValue(mem, Pointer(i)) THEN Dangling
           ELSE IF TypeAt(mem, Pointer(i)) # "JSON_ARRAY"
           THEN Landed(mem, held.handles)
           ELSE Made(mem_array_get(mem, Pointer(i), index), FALSE)

\* py_deep_copy (lines 532-549)
PyDeepCopy ==
    \E i \in LiveHandles :
        /\ MayCall(Cardinality(BlocksUnder(mem, Pointer(i))))
        /\ IF ~Sound(mem, Pointer(i)) THEN Dangling
           ELSE Made(json_deep_copy(mem, Pointer(i)), TRUE)

\* json_merge reads the types of both values, and the values if both are
\* objects
MergeReadsFreed(obj1, obj2) ==
    \/ ~IsValue(mem, obj1)
    \/ ~IsValue(mem, obj2)
    \/ /\ TypeAt(mem, obj1) = "JSON_OBJECT"
       /\ TypeAt(mem, obj2) = "JSON_OBJECT"
       /\ ~(Sound(mem, obj1) /\ Sound(mem, obj2))

\* py_merge (lines 563-579)
PyMerge ==
    \E i \in LiveHandles, j \in LiveHandles :
        /\ MayCall(Cardinality(BlocksUnder(mem, Pointer(i)))
                   + Cardinality(BlocksUnder(mem, Pointer(j))))
        /\ IF MergeReadsFreed(Pointer(i), Pointer(j)) THEN Dangling
           ELSE Made(json_merge(mem, Pointer(i), Pointer(j)), TRUE)

\* py_diff (lines 620-631)
PyDiff ==
    \E i \in LiveHandles, j \in LiveHandles :
        /\ MayCall(Cardinality(BlocksUnder(mem, Pointer(i)))
                   + Cardinality(BlocksUnder(mem, Pointer(j))) + 5)
        /\ IF ~(Sound(mem, Pointer(i)) /\ Sound(mem, Pointer(j)))
           THEN Dangling
           ELSE Made(json_diff(mem, Pointer(i), Pointer(j)), TRUE)

\* py_patch (lines 633-644)
PyPatch ==
    \E i \in LiveHandles, j \in LiveHandles :
        /\ MayCall(Cardinality(BlocksUnder(mem, Pointer(j))))
        /\ IF ~IsValue(mem, Pointer(j)) THEN Dangling
           ELSE Made(json_patch(mem, Pointer(i), Pointer(j)), TRUE)

\* py_create_number(1.0) (lines 898-908) and py_create_array (lines 921-928):
\* the capsule has no destructor
PyCreate ==
    /\ MayCall(1)
    /\ \/ Made(mem_create_number(mem, NumberOne), FALSE)
       \/ Made(mem_create_array(mem), FALSE)

\* py_array_append (lines 939-955); the program appends no array to one of
\* its own elements
PyArrayAppend ==
    /\ MayCall(0)
    /\ \E i \in LiveHandles, j \in LiveHandles :
           /\ Pointer(i) \notin Reach(mem, {Pointer(j)})
           /\ IF ~IsValue(mem, Pointer(i)) THEN Dangling
              ELSE Landed(mem_array_append(mem, Pointer(i), Pointer(j)).mem,
                          held.handles)

\* the program drops handle i: json_value_destructor (lines 5-10) runs if
\* the capsule was made with it
Release ==
    /\ pc = "run"
    /\ \E i \in LiveHandles :
           /\ mem' = IF held.handles[i].destructor
                     THEN json_free(mem, Pointer(i))
                     ELSE mem
           /\ held' = [held EXCEPT !.handles[i].live = FALSE]
           /\ pc' = IF mem'.undefined THEN "undefined" ELSE "run"
    /\ UNCHANGED <<g_json_last_error, others>>

NextHandles ==
    \/ PyParse
    \/ PyFree
    \/ PyArrayGet
    \/ PyDeepCopy
    \/ PyMerge
    \/ PyDiff
    \/ PyPatch
    \/ PyCreate
    \/ PyArrayAppend
    \/ Release

SpecHandles == InitHandles /\ [][NextHandles]_vars

\* C25: over every sequence of binding calls no JsonValue is freed twice
\* or read after it was freed, and once the program has dropped every handle
\* every JsonValue that was created has been freed
HandlesOwnOnce ==
    /\ ~mem.undefined
    /\ (held.handles # <<>> /\ LiveHandles = {})
           => FreeAddresses(mem) = Addresses

\* a value was parsed, freed by py_free, and freed again when its handle
\* was dropped
FreedThenReleased ==
    /\ pc = "undefined"
    /\ mem.undefined
    /\ Len(held.handles) = 1
    /\ held.handles[1].destructor
    /\ ~held.handles[1].live
    /\ held.calls = 1

----------------------------------------------------------------------------
(* Two threads that parse at the same time *)

Threads == {1, 2}

\* 1, [1], [ and 1" whose error the lexer records first and the parser
\* records again as another
ThreadDocs ==
    { <<CH_one>>,
      <<CH_lbracket, CH_one, CH_rbracket>>,
      <<CH_lbracket>>,
      <<CH_one, CH_quote>> }

\* the tokenizer of a process that has one for all its calls
SlotStatic(th) == 1

\* line 707: the tokenizer is an automatic variable of the call, so every
\* call has its own
Slot(th) == th

\* the codes a call hands to json_set_error, in the order of the calls: the
\* code of the lexer, and the code of the parser where it is another one
Writes(o) ==
    IF o.error = "NONE" THEN <<>>
    ELSE IF o.lexer_code \notin {"NONE", o.error}
    THEN <<o.lexer_code, o.error>>
    ELSE <<o.error>>

NoRecord == [code |-> "NONE", message |-> "NONE"]

\* a call of json_parse_with_error(json_string, &error) that has not begun
Call(json_string, addr) ==
    [json_string |-> json_string, addr |-> addr, pc |-> "start",
     tokenizer |-> Tokenizer(<<>>, 0, MAX_NESTING_DEPTH), value |-> NULL,
     pending |-> <<>>, error |-> NoRecord]

\* g_json_last_error is the code of the record; held.message is the code
\* whose text the message of the record holds
InitThreads ==
    /\ \E d1 \in ThreadDocs, d2 \in ThreadDocs :
           held = [calls |-> <<Call(d1, 1), Call(d2, 1)>>,
                   message |-> "NONE"]
    /\ pc = "run"
    /\ g_json_last_error = "NONE"
    /\ mem = NoMemory
    /\ NoDocument

PcOf(th) == held.calls[th].pc

\* the call of thread th goes on to position to
Goes(th, to) == [held EXCEPT !.calls[th].pc = to]

\* json_clear_error, line 51
ClearCode ==
    \E th \in Threads :
        /\ PcOf(th) = "start"
        /\ g_json_last_error' = "NONE"
        /\ held' = Goes(th, "clearing")
        /\ UNCHANGED <<pc, mem, others>>

\* json_clear_error, line 52
ClearMessage ==
    \E th \in Threads :
        /\ PcOf(th) = "clearing"
        /\ held' = [Goes(th, "cleared") EXCEPT !.message = "NONE"]
        /\ UNCHANGED g_json_last_error
        /\ UNCHANGED <<pc, mem, others>>

\* lines 706-716: the tokenizer is set up and takes the first token
Tokenize ==
    \E th \in Threads :
        /\ PcOf(th) = "cleared"
        /\ held' = [Goes(th, "tokenized") EXCEPT
                       !.calls[Slot(th)].tokenizer =
                           Advance(Tokenizer(held.calls[th].json_string,
                                             held.calls[th].addr,
                                             MAX_NESTING_DEPTH))]
        /\ UNCHANGED g_json_last_error
        /\ UNCHANGED <<pc, mem, others>>

\* result of the call whose local outcome is o
WithOutcome(th, o) ==
    [Goes(th, "parsed") EXCEPT !.calls[th].value = o.value,
                               !.calls[th].pending = Writes(o)]

\* lines 718-727: parse_value and the look at the token after the value;
\* the calls of json_set_error they make are taken one by one afterwards,
\* which the other thread cannot tell from their being made in between
ParseValue ==
    \E th \in Threads :
        /\ PcOf(th) = "tokenized"
        /\ held' = WithOutcome(th,
                       Parsed(parse_value(held.calls[Slot(th)].tokenizer)))
        /\ UNCHANGED g_json_last_error
        /\ UNCHANGED <<pc, mem, others>>

\* json_set_error, line 59
SetCode ==
    \E th \in Threads :
        /\ PcOf(th) = "parsed"
        /\ held.calls[th].pending # <<>>
        /\ g_json_last_error' = Head(held.calls[th].pending)
        /\ held' = Goes(th, "setting")
        /\ UNCHANGED <<pc, mem, others>>

\* json_set_error, lines 60-61
SetMessage ==
    \E th \in Threads :
        /\ PcOf(th) = "setting"
        /\ held' = [Goes(th, "parsed") EXCEPT
                       !.message = Head(held.calls[th].pending),
                       !.calls[th].pending = Tail(@)]
        /\ UNCHANGED g_json_last_error
        /\ UNCHANGED <<pc, mem, others>>

\* line 729, *error = g_json_last_error: the code
CopyCode ==
    \E th \in Threads :
        /\ PcOf(th) = "parsed"
        /\ held.calls[th].pending = <<>>
        /\ held' = [Goes(th, "copying") EXCEPT
                       !.calls[th].error.code = g_json_last_error]
        /\ UNCHANGED g_json_last_error
        /\ UNCHANGED <<pc, mem, others>>

\* line 729, *error = g_json_last_error: the message; line 730
CopyMessage ==
    \E th \in Threads :
        /\ PcOf(th) = "copying"
        /\ held' = [Goes(th, "returned") EXCEPT
                       !.calls[th].error.message = held.message]
        /\ UNCHANGED g_json_last_error
        /\ UNCHANGED <<pc, mem, others>>

NextThreads ==
    \/ ClearCode
    \/ ClearMessage
    \/ Tokenize
    \/ ParseValue
    \/ SetCode
    \/ SetMessage
    \/ CopyCode
    \/ CopyMessage

SpecThreads == InitThreads /\ [][NextThreads]_vars

\* every step leaves the call of the thread th as it is or leaves the call
\* of every other thread as it is
OwnCallOnly(th) ==
    held'.calls[th] # held.calls[th]
        => \A o \in Threads \ {th} : held'.calls[o] = held.calls[o]

\* the call of thread th, if it has returned, has returned what
\* json_parse_with_error returns for its text when it runs alone
AsAlone(th) ==
    held'.calls[th].pc = "returned"
        => held'.calls[th].value
               = json_parse_with_error(held.calls[th].json_string,
                                       held.calls[th].addr).value

\* C28: under every interleaving of two calls of json_parse_with_error on
\* their own texts each call returns the tree, or no value, that it returns
\* when it runs alone, and no step of one call changes anything of the
\* other call: the tokenizers are per call and only the last-error record
\* is written by both
ParsesShareErrorOnly ==
    [][\A th \in Threads : OwnCallOnly(th) /\ AsAlone(th)]_vars

\* both calls have returned, and the first has returned a value together
\* with the code the other call has recorded
ValueWithForeignCode ==
    /\ PcOf(1) = "returned"
    /\ PcOf(2) = "returned"
    /\ ~IsNull(held.calls[1].value)
    /\ IsNull(held.calls[2].value)
    /\ held.calls[1].error.code # "NONE"

=============================================================================
